---- MODULE Spec2Model ----
(***************************************************************************)
(* Parental-account authentication of the speech-practice application:     *)
(* the OTP service (otpService), the keyed storage service (storageService),*)
(* the email validator (emailValidation) and the sign-up handlers of the    *)
(* auth service (authService).                                              *)
(*                                                                         *)
(* Handlers run one at a time on a storage medium that answers every call;  *)
(* each handler is one action and reads the clock once.  Strings the code   *)
(* inspects are sequences of one-character strings, so that toLowerCase,    *)
(* trim, split and the format expression are computed.  Times are           *)
(* milliseconds.  The analytics namespace is written by the handlers and    *)
(* never read back by them; it is left out.                                 *)
(***************************************************************************)
EXTENDS Integers, Sequences, FiniteSets, TLC

VARIABLES
    now,        \* Date.now(), in ms
    calls,      \* calls so far that wrote to storage (bounds the run)
    otp_data,   \* AsyncStorage namespace 'otp_data': key -> OTP record
    parents,    \* AsyncStorage namespace 'parents': key -> parent record
    sessions,   \* AsyncStorage namespace 'sessions': accessToken -> session
    last,       \* the last call made and the value it returned
    issued,     \* per key: the codes generateOTPForEmail returned (the last two)
    run,        \* the current run of consecutive wrong-code submissions
    children,   \* AsyncStorage namespace 'children': key -> list of children
    current_session_token,  \* AsyncStorage key 'current_session_token'
    provider,   \* AuthProvider's state: session, parent, children, loading
    skippedParentProfile,   \* AppContent's state of that name
    tasks       \* the calls in flight: where each is and what it has read

\* the state of the application above the services, and the calls in flight
ext == <<children, current_session_token, provider, skippedParentProfile,
         tasks>>

vars == <<now, calls, otp_data, parents, sessions, last, issued, run, ext>>

-----------------------------------------------------------------------------
(* Bounds of the model *)

\* calls that write to storage, in Spec, in SpecCodes, in SpecThrottle and
\* in SpecRequests
MaxCalls == 2
MaxCodesCalls == 3
MaxThrottleCalls == 7
MaxRequestCalls == 7
MaxSessionCalls == 5
MaxProfileCalls == 5
MaxAccountCalls == 5
MaxFaultCalls == 4
MaxWindowCalls == 8
MaxSuccessCalls == 10
MaxChildCalls == 6
MaxAppCalls == 6
MaxOverlapCalls == 8

-----------------------------------------------------------------------------
(* OTP_CONFIG *)

LENGTH == 6
VALIDITY_MS == 10 * 60 * 1000
MAX_ATTEMPTS == 5
ATTEMPT_WINDOW_MS == 60 * 60 * 1000

\* session lifetime: 7 days
SESSION_MS == 7 * 24 * 60 * 60 * 1000

NoTime == 0          \* otpGeneratedAt: null (falsy)
NoCode == "null"     \* currentOTP: null (falsy)
NoReason == "null"   \* reason: null
NoError == "null"    \* error: null

\* The clock readings of a run: the start, and 1 ms before, exactly at and
\* 1 ms after the expiry of a code generated at the start.
Instants == {1, VALIDITY_MS, VALIDITY_MS + 1, VALIDITY_MS + 2}

\* The clock readings of a run of SpecThrottle: the start, after the expiry
\* of a code generated at the start, and the instant at which an attempt made
\* at the start leaves the attempt window.
ThrottleInstants == {1, VALIDITY_MS + 2, ATTEMPT_WINDOW_MS + 1}

\* Values generateOTP returns (6 decimal digits, 100000..999999), and a
\* value it never returns.
Code1 == "123456"
Code2 == "654321"
WrongCode == "000000"
Codes == {Code1, Code2}
Inputs == {Code1, WrongCode}

\* an access or refresh token that is falsy ('' or null)
NoToken == [kind |-> "none", at |-> 0, rnd |-> ""]

\* Values Math.random().toString(36).substr(2, 9) returns.
Rand == {"r1", "r2"}

\* The clock readings of a run of SpecSessions: the start, 1 ms later, and
\* the expiry of a session issued at the start and 1 ms after it.
SessionInstants == {1, 2, SESSION_MS + 1, SESSION_MS + 2}

\* Tokens callers pass: the falsy one and the ones generateTokens can return
\* at the clock readings of the run.
AccessTokens ==
    {NoToken} \cup {[kind |-> "access", at |-> t, rnd |-> r] :
                        t \in SessionInstants, r \in Rand}
RefreshTokens ==
    {NoToken} \cup {[kind |-> "refresh", at |-> t, rnd |-> r] :
                        t \in SessionInstants, r \in Rand}

\* Values of profileData callers pass: a name, a name too short, the flag.
NameAl == <<"A", "l", " ">>
NameShort == <<"A">>
Profiles ==
    {[name |-> NameAl], [name |-> NameShort], [skippedProfileSetup |-> TRUE]}

\* Email strings callers pass.
EmailA == <<"a", "@", "x">>
EmailAUpper == <<"A", "@", "x">>
EmailB == <<"b", "@", "x">>
Emails == {EmailA, EmailAUpper, EmailB}
EmailsOfA == {EmailA, EmailAUpper}

\* Email strings validateEmail refuses: empty, blank, no domain, deny-listed
EmailEmpty == <<>>
EmailBlank == <<" ">>
EmailNoAt == <<"a", ".", "x">>
EmailDisposable == <<"a", "@", "G", "r", "r", ".", "l", "a">>
BadEmails == {EmailEmpty, EmailBlank, EmailNoAt, EmailDisposable}

-----------------------------------------------------------------------------
(* JavaScript string operations on sequences of characters *)

UpperCase == <<"A", "B", "C", "D", "E", "F", "G", "H", "I", "J", "K", "L", "M",
               "N", "O", "P", "Q", "R", "S", "T", "U", "V", "W", "X", "Y", "Z">>
LowerCase == <<"a", "b", "c", "d", "e", "f", "g", "h", "i", "j", "k", "l", "m",
               "n", "o", "p", "q", "r", "s", "t", "u", "v", "w", "x", "y", "z">>
Digits == {"0", "1", "2", "3", "4", "5", "6", "7", "8", "9"}

\* upper-case letter -> lower-case letter
LowerOf ==
    [ch \in {UpperCase[i] : i \in 1..26} |->
        LowerCase[CHOOSE i \in 1..26 : UpperCase[i] = ch]]

LowerChar(ch) == IF ch \in DOMAIN LowerOf THEN LowerOf[ch] ELSE ch

\* s.toLowerCase()
ToLowerCase(s) == [i \in 1..Len(s) |-> LowerChar(s[i])]

\* s.trim()
RECURSIVE Trim(_)
Trim(s) ==
    IF s = <<>> THEN s
    ELSE IF Head(s) = " " THEN Trim(Tail(s))
    ELSE IF s[Len(s)] = " " THEN Trim(SubSeq(s, 1, Len(s) - 1))
    ELSE s

\* s.split(sep), sep one character
RECURSIVE Split(_, _)
Split(s, sep) ==
    IF \E i \in 1..Len(s) : s[i] = sep
    THEN LET i == CHOOSE j \in 1..Len(s) :
                      s[j] = sep /\ \A k \in 1..(j - 1) : s[k] # sep
         IN <<SubSeq(s, 1, i - 1)>> \o Split(SubSeq(s, i + 1, Len(s)), sep)
    ELSE <<s>>

-----------------------------------------------------------------------------
(* emailValidation *)

DISPOSABLE_DOMAINS == {
    <<"1", "0", "m", "i", "n", "u", "t", "e", "m", "a", "i", "l", ".", "c", "o", "m">>,
    <<"t", "e", "m", "p", "m", "a", "i", "l", ".", "c", "o", "m">>,
    <<"g", "u", "e", "r", "r", "i", "l", "l", "a", "m", "a", "i", "l", ".", "c", "o", "m">>,
    <<"m", "a", "i", "l", "i", "n", "a", "t", "o", "r", ".", "c", "o", "m">>,
    <<"t", "h", "r", "o", "w", "a", "w", "a", "y", ".", "e", "m", "a", "i", "l">>,
    <<"t", "e", "m", "p", "-", "m", "a", "i", "l", ".", "o", "r", "g">>,
    <<"g", "e", "t", "n", "a", "d", "a", ".", "c", "o", "m">>,
    <<"m", "o", "h", "m", "a", "l", ".", "c", "o", "m">>,
    <<"f", "a", "k", "e", "i", "n", "b", "o", "x", ".", "c", "o", "m">>,
    <<"t", "r", "a", "s", "h", "m", "a", "i", "l", ".", "c", "o", "m">>,
    <<"m", "a", "i", "l", "d", "r", "o", "p", ".", "c", "c">>,
    <<"y", "o", "p", "m", "a", "i", "l", ".", "c", "o", "m">>,
    <<"s", "h", "a", "r", "k", "l", "a", "s", "e", "r", "s", ".", "c", "o", "m">>,
    <<"g", "r", "r", ".", "l", "a">>,
    <<"g", "u", "e", "r", "r", "i", "l", "l", "a", "m", "a", "i", "l", "b", "l", "o", "c", "k", ".", "c", "o", "m">>,
    <<"p", "o", "k", "e", "m", "a", "i", "l", ".", "n", "e", "t">>,
    <<"s", "p", "a", "m", "4", ".", "m", "e">>,
    <<"b", "c", "c", "t", "o", ".", "m", "e">>,
    <<"c", "h", "i", "t", "t", "h", "i", ".", "i", "n">>,
    <<"d", "i", "s", "p", "o", "s", "t", "a", "b", "l", "e", ".", "c", "o", "m">>,
    <<"m", "e", "l", "t", "m", "a", "i", "l", ".", "c", "o", "m">>,
    <<"e", "m", "a", "i", "l", "o", "n", "d", "e", "c", "k", ".", "c", "o", "m">>,
    <<"s", "p", "a", "m", "g", "o", "u", "r", "m", "e", "t", ".", "c", "o", "m">>,
    <<"m", "y", "t", "r", "a", "s", "h", "m", "a", "i", "l", ".", "c", "o", "m">>,
    <<"t", "e", "m", "p", "i", "n", "b", "o", "x", ".", "c", "o", ".", "u", "k">>,
    <<"m", "i", "n", "t", "e", "m", "a", "i", "l", ".", "c", "o", "m">>,
    <<"m", "e", "l", "t", ".", "l", "i">>,
    <<"3", "3", "m", "a", "i", "l", ".", "c", "o", "m">>,
    <<"m", "a", "i", "l", "c", "a", "t", "c", "h", ".", "c", "o", "m">>,
    <<"s", "p", "a", "m", "b", "o", "x", ".", "u", "s">>
}
AlphaNum == {UpperCase[i] : i \in 1..26} \cup {LowerCase[i] : i \in 1..26} \cup Digits

\* the characters strictEmailRegex allows before the @ (the apostrophe and
\* the backtick are written by name)
LocalChars ==
    AlphaNum \cup {".", "!", "#", "$", "%", "&", "apostrophe", "*", "+", "/",
                   "=", "?", "^", "_", "backtick", "{", "|", "}", "~", "-"}

\* [a-zA-Z0-9](?:[a-zA-Z0-9-]{0,61}[a-zA-Z0-9])?
IsLabel(l) ==
    /\ Len(l) >= 1
    /\ Len(l) <= 63
    /\ l[1] \in AlphaNum
    /\ l[Len(l)] \in AlphaNum
    /\ \A i \in 1..Len(l) : l[i] \in AlphaNum \cup {"-"}

\* isValidEmailFormat(email): strictEmailRegex.test(email.trim())
IsValidEmailFormat(email) ==
    /\ email # <<>>
    /\ LET parts == Split(Trim(email), "@") IN
         /\ Len(parts) = 2
         /\ Len(parts[1]) >= 1
         /\ \A i \in 1..Len(parts[1]) : parts[1][i] \in LocalChars
         /\ LET labels == Split(parts[2], ".")
            IN \A i \in 1..Len(labels) : IsLabel(labels[i])

\* isDisposableDomain(email)
IsDisposableDomain(email) ==
    /\ email # <<>>
    /\ LET parts == Split(ToLowerCase(email), "@") IN
         /\ Len(parts) >= 2
         /\ parts[2] # <<>>
         /\ parts[2] \in DISPOSABLE_DOMAINS

ErrRequired == "Email is required"
ErrFormat == "Invalid email format"
ErrDisposable == "Disposable email domains are not allowed"

\* validateEmail(email)
ValidateEmail(email) ==
    IF email = <<>> \/ Trim(email) = <<>>
    THEN [valid |-> FALSE, error |-> ErrRequired]
    ELSE IF ~IsValidEmailFormat(ToLowerCase(Trim(email)))
    THEN [valid |-> FALSE, error |-> ErrFormat]
    ELSE IF IsDisposableDomain(ToLowerCase(Trim(email)))
    THEN [valid |-> FALSE, error |-> ErrDisposable]
    ELSE [valid |-> TRUE, error |-> NoError]

\* validateEmail and toLowerCase on the email strings of the model, computed once
ValidatedEmails == [e \in Emails \cup BadEmails |-> ValidateEmail(e)]
LoweredEmails == [e \in Emails \cup BadEmails |-> ToLowerCase(e)]

Validated(email) ==
    IF email \in DOMAIN ValidatedEmails THEN ValidatedEmails[email]
    ELSE ValidateEmail(email)

Lowered(email) ==
    IF email \in DOMAIN LoweredEmails THEN LoweredEmails[email]
    ELSE ToLowerCase(email)

-----------------------------------------------------------------------------
(* storageService: a namespace is one JSON object, read and written whole *)

\* obj[key] = value, on the object read
Put(obj, key, value) ==
    [x \in (DOMAIN obj) \cup {key} |-> IF x = key THEN value ELSE obj[x]]

\* a delete that leaves the key
Del_Kept(obj, key) == obj

\* delete obj[key], on the object read
Del(obj, key) == [x \in (DOMAIN obj) \ {key} |-> obj[x]]

Has(obj, key) == key \in DOMAIN obj

\* otpStorage.save(email, data)
OtpSave(store, email, data) == Put(store, Lowered(email), data)

\* parentStorage.save(parent)
ParentSave(store, parent) == Put(store, Lowered(parent.email), parent)

\* sessionStorage.save that files the row under its refresh token
SessionSave_ByRefreshToken(store, session) ==
    Put(store, session.refreshToken, session)

\* sessionStorage.save(session)
SessionSave(store, session) == Put(store, session.accessToken, session)

-----------------------------------------------------------------------------
(* otpService *)

\* getOTPData(email): the stored record, or a fresh one
GetOTPData(store, email) ==
    IF Has(store, Lowered(email))
    THEN store[Lowered(email)]
    ELSE [email |-> Lowered(email), attempts |-> <<>>,
          currentOTP |-> NoCode, otpGeneratedAt |-> NoTime]

\* cleanOldAttempts that keeps an attempt exactly one window old
CleanOldAttempts_Inclusive(attempts, t) ==
    SelectSeq(attempts, LAMBDA a : t - a.timestamp <= ATTEMPT_WINDOW_MS)

\* cleanOldAttempts(attempts), Date.now() = t
CleanOldAttempts(attempts, t) ==
    SelectSeq(attempts, LAMBDA a : t - a.timestamp < ATTEMPT_WINDOW_MS)

\* hasExceededMaxAttempts that lets the attempt at the cap through
HasExceededMaxAttempts_Strict(attempts, t) ==
    Len(CleanOldAttempts(attempts, t)) > MAX_ATTEMPTS

\* hasExceededMaxAttempts that counts the failed attempts only
HasExceededMaxAttempts_FailuresOnly(attempts, t) ==
    Len(SelectSeq(CleanOldAttempts(attempts, t), LAMBDA a : ~a.success))
        >= MAX_ATTEMPTS

\* hasExceededMaxAttempts that counts every attempt ever recorded
HasExceededMaxAttempts_Ever(attempts, t) == Len(attempts) >= MAX_ATTEMPTS

\* hasExceededMaxAttempts(attempts), Date.now() = t
HasExceededMaxAttempts(attempts, t) ==
    Len(CleanOldAttempts(attempts, t)) >= MAX_ATTEMPTS

ErrTooManyRequest == "Too many attempts. Please try again later."
ErrNoOTP == "No OTP found. Please request a new one."
ErrExpired == "Code expired"
ErrTooMany == "Too many attempts"
ErrInvalid == "Invalid code"

\* StoreCode that keeps a code that is still stored
StoreCode_KeepLive(data, otp, t) ==
    IF data.currentOTP # NoCode THEN [data EXCEPT !.otpGeneratedAt = t]
    ELSE [data EXCEPT !.currentOTP = otp, !.otpGeneratedAt = t]

\* StoreCode that counts the request as an attempt
StoreCode_Counted(data, otp, t) ==
    [data EXCEPT !.currentOTP = otp, !.otpGeneratedAt = t,
                 !.attempts = Append(@, [otp |-> otp, timestamp |-> t,
                                         success |-> FALSE, reason |-> NoReason])]

\* data.currentOTP = otp; data.otpGeneratedAt = now
StoreCode(data, otp, t) == [data EXCEPT !.currentOTP = otp, !.otpGeneratedAt = t]

\* generateOTPForEmail(email), generateOTP() = otp and Date.now() = t:
\* the value returned and the namespace afterwards
GenerateResult(store, email, otp, t) ==
    LET data == GetOTPData(store, email) IN
    IF HasExceededMaxAttempts(data.attempts, t)
    THEN [ret |-> [success |-> FALSE, error |-> ErrTooManyRequest],
          store |-> store]
    ELSE [ret |-> [success |-> TRUE, otp |-> otp, expiresAt |-> t + VALIDITY_MS],
          store |-> OtpSave(store, email, StoreCode(data, otp, t))]

\* an attempt that is not recorded
PushAttempt_Dropped(data, inputOTP, t, ok, reason) == data

\* an attempt pushed onto the attempts that are still within the window
PushAttempt_Purging(data, inputOTP, t, ok, reason) ==
    [data EXCEPT !.attempts = Append(CleanOldAttempts(@, t),
        [otp |-> inputOTP, timestamp |-> t, success |-> ok, reason |-> reason])]

\* data.attempts.push({otp, timestamp, success, reason})
PushAttempt(data, inputOTP, t, ok, reason) ==
    [data EXCEPT !.attempts = Append(@,
        [otp |-> inputOTP, timestamp |-> t, success |-> ok, reason |-> reason])]

\* a clearing that leaves the generation time stored
ClearOTP_CodeOnly(data) == [data EXCEPT !.currentOTP = NoCode]

\* a code that stays stored after it was accepted
ClearOTP_Kept(data) == data

\* data.currentOTP = null; data.otpGeneratedAt = null
ClearOTP(data) == [data EXCEPT !.currentOTP = NoCode, !.otpGeneratedAt = NoTime]

\* an expiry measured against the attempt window
IsExpired_ByWindow(data, t) == t - data.otpGeneratedAt > ATTEMPT_WINDOW_MS

\* now - data.otpGeneratedAt > OTP_CONFIG.VALIDITY_MS
IsExpired(data, t) == t - data.otpGeneratedAt > VALIDITY_MS

\* validateOTP(email, inputOTP), Date.now() = t:
\* the value returned and the namespace afterwards
ValidateResult(store, email, inputOTP, t) ==
    LET data == GetOTPData(store, email) IN
    IF data.currentOTP = NoCode \/ data.otpGeneratedAt = NoTime
    THEN [ret |-> [valid |-> FALSE, error |-> ErrNoOTP], store |-> store]
    ELSE IF IsExpired(data, t)
    THEN [ret |-> [valid |-> FALSE, error |-> ErrExpired],
          store |-> OtpSave(store, email,
                       PushAttempt(data, inputOTP, t, FALSE, "expired"))]
    ELSE IF HasExceededMaxAttempts(data.attempts, t)
    THEN [ret |-> [valid |-> FALSE, error |-> ErrTooMany], store |-> store]
    ELSE
        LET isValid == data.currentOTP = inputOTP
            pushed == PushAttempt(data, inputOTP, t, isValid,
                                  IF isValid THEN NoReason ELSE "invalid")
            saved == IF isValid THEN ClearOTP(pushed) ELSE pushed
        IN  [ret |-> IF isValid
                     THEN [valid |-> TRUE, error |-> NoError]
                     ELSE IF Len(CleanOldAttempts(saved.attempts, t)) >= MAX_ATTEMPTS
                     THEN [valid |-> FALSE, error |-> ErrTooMany]
                     ELSE [valid |-> FALSE, error |-> ErrInvalid],
             store |-> OtpSave(store, email, saved)]

\* getRemainingAttempts without Math.max
GetRemainingAttemptsResult_Unfloored(store, email, t) ==
    MAX_ATTEMPTS - Len(CleanOldAttempts(GetOTPData(store, email).attempts, t))

\* getRemainingAttempts(email), Date.now() = t
GetRemainingAttemptsResult(store, email, t) ==
    LET recent == CleanOldAttempts(GetOTPData(store, email).attempts, t) IN
    IF MAX_ATTEMPTS - Len(recent) > 0 THEN MAX_ATTEMPTS - Len(recent) ELSE 0

-----------------------------------------------------------------------------
(* authService *)

\* generateDeviceFingerprint(), Date.now() = t
GenerateDeviceFingerprint(t) == [device |-> t]

\* generateTokens(), Date.now() = t and the two random suffixes
GenerateTokens(t, ra, rr) ==
    [accessToken |-> [kind |-> "access", at |-> t, rnd |-> ra],
     refreshToken |-> [kind |-> "refresh", at |-> t, rnd |-> rr]]

\* startSignup that returns the code in every execution context
StartSignupResult_AlwaysCode(store, email, otp, isDev, t) ==
    LET v == Validated(email) IN
    IF ~v.valid
    THEN [ret |-> [success |-> FALSE, error |-> v.error], store |-> store]
    ELSE LET g == GenerateResult(store, email, otp, t) IN
         IF ~g.ret.success
         THEN [ret |-> [success |-> FALSE, error |-> g.ret.error],
               store |-> g.store]
         ELSE [ret |-> [success |-> TRUE, expiresAt |-> g.ret.expiresAt,
                        otp |-> g.ret.otp],
               store |-> g.store]

\* startSignup that requests the code before it validates the email
StartSignupResult_GenerateFirst(store, email, otp, isDev, t) ==
    LET v == Validated(email)
        g == GenerateResult(store, email, otp, t)
    IN  IF ~v.valid
        THEN [ret |-> [success |-> FALSE, error |-> v.error], store |-> g.store]
        ELSE IF ~g.ret.success
        THEN [ret |-> [success |-> FALSE, error |-> g.ret.error],
              store |-> g.store]
        ELSE [ret |-> IF isDev
                      THEN [success |-> TRUE, expiresAt |-> g.ret.expiresAt,
                            otp |-> g.ret.otp]
                      ELSE [success |-> TRUE, expiresAt |-> g.ret.expiresAt],
              store |-> g.store]

\* startSignup(email): the value returned and the OTP namespace afterwards
StartSignupResult(store, email, otp, isDev, t) ==
    LET v == Validated(email) IN
    IF ~v.valid
    THEN [ret |-> [success |-> FALSE, error |-> v.error], store |-> store]
    ELSE LET g == GenerateResult(store, email, otp, t) IN
         IF ~g.ret.success
         THEN [ret |-> [success |-> FALSE, error |-> g.ret.error],
               store |-> g.store]
         ELSE [ret |-> IF isDev
                       THEN [success |-> TRUE, expiresAt |-> g.ret.expiresAt,
                             otp |-> g.ret.otp]
                       ELSE [success |-> TRUE, expiresAt |-> g.ret.expiresAt],
               store |-> g.store]

MS_PER_DAY == 24 * 60 * 60 * 1000

\* new Date(t).toISOString(): the date part and the time-of-day part
ToISOString(t) == [date |-> t \div MS_PER_DAY, time |-> t % MS_PER_DAY]

\* new Date(iso), as milliseconds
ParseDate(iso) == iso.date * MS_PER_DAY + iso.time

\* the parent row completeSignup writes
NewParent(email, t) ==
    [email |-> Lowered(email), createdAt |-> ToISOString(t),
     updatedAt |-> ToISOString(t)]

\* the session row completeSignup writes
NewSession(email, t, ra, rr) ==
    LET tok == GenerateTokens(t, ra, rr) IN
    [accessToken |-> tok.accessToken, refreshToken |-> tok.refreshToken,
     parentEmail |-> Lowered(email),
     deviceFingerprint |-> GenerateDeviceFingerprint(t),
     createdAt |-> ToISOString(t), expiresAt |-> ToISOString(t + SESSION_MS)]

\* completeSignup that writes the parent row before it validates the code
CompleteSignupResult_SaveFirst(otps, pars, sess, email, inputOTP, t, ra, rr) ==
    LET v == ValidateResult(otps, email, inputOTP, t) IN
    IF ~v.ret.valid
    THEN [ret |-> [success |-> FALSE, error |-> v.ret.error],
          otps |-> v.store, pars |-> ParentSave(pars, NewParent(email, t)),
          sess |-> sess]
    ELSE [ret |-> [success |-> TRUE,
                   session |-> NewSession(email, t, ra, rr),
                   parent |-> NewParent(email, t)],
          otps |-> v.store,
          pars |-> ParentSave(pars, NewParent(email, t)),
          sess |-> SessionSave(sess, NewSession(email, t, ra, rr))]

\* completeSignup that writes the session row whatever validateOTP answers
CompleteSignupResult_SessionAnyway(otps, pars, sess, email, inputOTP, t, ra, rr) ==
    LET v == ValidateResult(otps, email, inputOTP, t) IN
    IF ~v.ret.valid
    THEN [ret |-> [success |-> FALSE, error |-> v.ret.error],
          otps |-> v.store, pars |-> pars,
          sess |-> SessionSave(sess, NewSession(email, t, ra, rr))]
    ELSE [ret |-> [success |-> TRUE,
                   session |-> NewSession(email, t, ra, rr),
                   parent |-> NewParent(email, t)],
          otps |-> v.store,
          pars |-> ParentSave(pars, NewParent(email, t)),
          sess |-> SessionSave(sess, NewSession(email, t, ra, rr))]

\* completeSignup(email, otp), Date.now() = t and the random suffixes ra, rr:
\* the value returned and the three namespaces afterwards
CompleteSignupResult(otps, pars, sess, email, inputOTP, t, ra, rr) ==
    LET v == ValidateResult(otps, email, inputOTP, t) IN
    IF ~v.ret.valid
    THEN [ret |-> [success |-> FALSE, error |-> v.ret.error],
          otps |-> v.store, pars |-> pars, sess |-> sess]
    ELSE [ret |-> [success |-> TRUE,
                   session |-> NewSession(email, t, ra, rr),
                   parent |-> NewParent(email, t)],
          otps |-> v.store,
          pars |-> ParentSave(pars, NewParent(email, t)),
          sess |-> SessionSave(sess, NewSession(email, t, ra, rr))]

\* a value that is null, and a value that is not
None == <<>>
Some(x) == <<x>>

\* getSession that takes a session for expired at the instant of its expiry
GetSessionResult_AtExpiry(sess, accessToken, t) ==
    IF accessToken = NoToken THEN [ret |-> None, sess |-> sess]
    ELSE IF ~Has(sess, accessToken) THEN [ret |-> None, sess |-> sess]
    ELSE IF t >= ParseDate(sess[accessToken].expiresAt)
    THEN [ret |-> None, sess |-> Del(sess, accessToken)]
    ELSE [ret |-> Some(sess[accessToken]), sess |-> sess]

\* getSession(accessToken), Date.now() = t: the value returned and the
\* sessions namespace afterwards
GetSessionResult(sess, accessToken, t) ==
    IF accessToken = NoToken THEN [ret |-> None, sess |-> sess]
    ELSE IF ~Has(sess, accessToken) THEN [ret |-> None, sess |-> sess]
    ELSE IF t > ParseDate(sess[accessToken].expiresAt)
    THEN [ret |-> None, sess |-> Del(sess, accessToken)]
    ELSE [ret |-> Some(sess[accessToken]), sess |-> sess]

\* a stored row has the refresh token
Matches(sess, refreshToken) ==
    refreshToken # NoToken /\ \E k \in DOMAIN sess : sess[k].refreshToken = refreshToken

\* Object.values(allSessions).find(s => s.refreshToken === refreshToken):
\* the key of the row found (the rows of the model have distinct refresh
\* tokens)
FindByRefreshToken(sess, refreshToken) ==
    CHOOSE k \in DOMAIN sess : sess[k].refreshToken = refreshToken

\* an updated session that keeps the expiry of the old one
UpdatedSession_KeepExpiry(session, t, ra, rr) ==
    LET tok == GenerateTokens(t, ra, rr) IN
    [f \in (DOMAIN session) \cup {"updatedAt"} |->
        IF f = "accessToken" THEN tok.accessToken
        ELSE IF f = "refreshToken" THEN tok.refreshToken
        ELSE IF f = "updatedAt" THEN ToISOString(t)
        ELSE session[f]]

\* { ...session, accessToken, refreshToken, updatedAt, expiresAt }
UpdatedSession(session, t, ra, rr) ==
    LET tok == GenerateTokens(t, ra, rr) IN
    [f \in (DOMAIN session) \cup {"updatedAt"} |->
        IF f = "accessToken" THEN tok.accessToken
        ELSE IF f = "refreshToken" THEN tok.refreshToken
        ELSE IF f = "updatedAt" THEN ToISOString(t)
        ELSE IF f = "expiresAt" THEN ToISOString(t + SESSION_MS)
        ELSE session[f]]

\* refreshSession that leaves the old row stored
RefreshSessionResult_KeepOld(sess, refreshToken, t, ra, rr) ==
    IF refreshToken = NoToken THEN [ret |-> None, sess |-> sess]
    ELSE IF ~\E k \in DOMAIN sess : sess[k].refreshToken = refreshToken
    THEN [ret |-> None, sess |-> sess]
    ELSE LET session == sess[FindByRefreshToken(sess, refreshToken)]
             updated == UpdatedSession(session, t, ra, rr)
         IN  [ret |-> Some(updated), sess |-> SessionSave(sess, updated)]

\* refreshSession that revokes the stored sessions when no row matches
RefreshSessionResult_RevokeOnMiss(sess, refreshToken, t, ra, rr) ==
    IF refreshToken = NoToken THEN [ret |-> None, sess |-> sess]
    ELSE IF ~\E k \in DOMAIN sess : sess[k].refreshToken = refreshToken
    THEN [ret |-> None, sess |-> <<>>]
    ELSE LET session == sess[FindByRefreshToken(sess, refreshToken)]
             updated == UpdatedSession(session, t, ra, rr)
         IN  [ret |-> Some(updated),
              sess |-> SessionSave(Del(sess, session.accessToken), updated)]

\* refreshSession(refreshToken), Date.now() = t and the random suffixes
\* ra, rr: the value returned and the sessions namespace afterwards
RefreshSessionResult(sess, refreshToken, t, ra, rr) ==
    IF refreshToken = NoToken THEN [ret |-> None, sess |-> sess]
    ELSE IF ~\E k \in DOMAIN sess : sess[k].refreshToken = refreshToken
    THEN [ret |-> None, sess |-> sess]
    ELSE LET session == sess[FindByRefreshToken(sess, refreshToken)]
             updated == UpdatedSession(session, t, ra, rr)
         IN  [ret |-> Some(updated),
              sess |-> SessionSave(Del(sess, session.accessToken), updated)]

\* signOut that reports a failure when no row is keyed by the token
SignOutResult_AbsentIsError(sess, accessToken) ==
    [ret |-> [success |-> Has(sess, accessToken)],
     sess |-> IF accessToken = NoToken THEN sess ELSE Del(sess, accessToken)]

\* signOut(accessToken): the value returned and the sessions namespace
\* afterwards
SignOutResult(sess, accessToken) ==
    [ret |-> [success |-> TRUE],
     sess |-> IF accessToken = NoToken THEN sess ELSE Del(sess, accessToken)]

-----------------------------------------------------------------------------
(* parentProfileService *)

MIN_NAME_LENGTH == 2
MAX_NAME_LENGTH == 50

ErrNameRequired == "Name is required"
ErrNameShort == "Name must be at least 2 characters"
ErrNameLong == "Name must be 50 characters or less"
ErrParentNotFound == "Parent not found"

\* validateParentName(name)
ValidateParentName(name) ==
    IF name = <<>> THEN [valid |-> FALSE, error |-> ErrNameRequired]
    ELSE IF Len(Trim(name)) < MIN_NAME_LENGTH
    THEN [valid |-> FALSE, error |-> ErrNameShort]
    ELSE IF Len(Trim(name)) > MAX_NAME_LENGTH
    THEN [valid |-> FALSE, error |-> ErrNameLong]
    ELSE [valid |-> TRUE, error |-> NoError, name |-> Trim(name)]

\* { ...existingParent, ...profileData, updatedAt }
MergedParent(existing, profileData, t) ==
    [f \in (DOMAIN existing) \cup (DOMAIN profileData) \cup {"updatedAt"} |->
        IF f = "updatedAt" THEN ToISOString(t)
        ELSE IF f \in DOMAIN profileData
        THEN (IF f = "name" THEN Trim(profileData[f]) ELSE profileData[f])
        ELSE existing[f]]

\* updateParentProfile(email, profileData), Date.now() = t: the value
\* returned and the parents namespace afterwards
UpdateParentProfileResult(pars, email, profileData, t) ==
    IF "name" \in DOMAIN profileData /\ ~ValidateParentName(profileData.name).valid
    THEN [ret |-> [success |-> FALSE,
                   error |-> ValidateParentName(profileData.name).error],
          pars |-> pars]
    ELSE IF ~Has(pars, Lowered(email))
    THEN [ret |-> [success |-> FALSE, error |-> ErrParentNotFound],
          pars |-> pars]
    ELSE LET updated == MergedParent(pars[Lowered(email)], profileData, t) IN
         [ret |-> [success |-> TRUE, parent |-> updated],
          pars |-> ParentSave(pars, updated)]

-----------------------------------------------------------------------------
(* The handlers on a medium whose calls can fail.  A call of AsyncStorage    *)
(* either answers or throws; ok tells which.  The OTP namespace is kept on   *)
(* calls that answer.                                                        *)

\* which of the two medium calls of a save or a delete answer
Faults == [get : BOOLEAN, set : BOOLEAN]
NoFault == [get |-> TRUE, set |-> TRUE]

\* storageService.getItem(key) followed by `|| {}`: the namespace read; a
\* call that throws is caught and answered null, which reads as {}
GetAllF(obj, ok) == IF ok THEN obj ELSE <<>>

\* storageService.setItem(key, value): the value returned and the namespace
\* afterwards
SetItemF(obj, value, ok) == [ret |-> ok, obj |-> IF ok THEN value ELSE obj]

\* parentStorage.save(parent)
ParentSaveF(store, parent, f) ==
    SetItemF(store, Put(GetAllF(store, f.get), Lowered(parent.email), parent),
             f.set)

\* sessionStorage.save(session)
SessionSaveF(store, session, f) ==
    SetItemF(store, Put(GetAllF(store, f.get), session.accessToken, session),
             f.set)

\* sessionStorage.delete(accessToken)
SessionDeleteF(store, accessToken, f) ==
    SetItemF(store, Del(GetAllF(store, f.get), accessToken), f.set)

\* completeSignup(email, otp): fp and fs tell which medium calls of the
\* parent save and of the session save answer; the values the two saves
\* return are dropped
CompleteSignupFaulty(otps, pars, sess, email, inputOTP, t, ra, rr, fp, fs) ==
    LET v == ValidateResult(otps, email, inputOTP, t) IN
    IF ~v.ret.valid
    THEN [ret |-> [success |-> FALSE, error |-> v.ret.error],
          otps |-> v.store, pars |-> pars, sess |-> sess]
    ELSE [ret |-> [success |-> TRUE,
                   session |-> NewSession(email, t, ra, rr),
                   parent |-> NewParent(email, t)],
          otps |-> v.store,
          pars |-> ParentSaveF(pars, NewParent(email, t), fp).obj,
          sess |-> SessionSaveF(sess, NewSession(email, t, ra, rr), fs).obj]

\* getSession(accessToken): okGet tells whether the read answers, fd which
\* medium calls of the delete answer
GetSessionFaulty(sess, accessToken, t, okGet, fd) ==
    LET read == GetAllF(sess, okGet) IN
    IF accessToken = NoToken THEN [ret |-> None, sess |-> sess]
    ELSE IF ~Has(read, accessToken) THEN [ret |-> None, sess |-> sess]
    ELSE IF t > ParseDate(read[accessToken].expiresAt)
    THEN [ret |-> None, sess |-> SessionDeleteF(sess, accessToken, fd).obj]
    ELSE [ret |-> Some(read[accessToken]), sess |-> sess]

\* refreshSession(refreshToken): okAll tells whether getAll answers, fd and
\* fs which medium calls of the delete and of the save answer; the values the
\* delete and the save return are dropped
RefreshSessionFaulty(sess, refreshToken, t, ra, rr, okAll, fd, fs) ==
    LET read == GetAllF(sess, okAll) IN
    IF refreshToken = NoToken THEN [ret |-> None, sess |-> sess]
    ELSE IF ~\E k \in DOMAIN read : read[k].refreshToken = refreshToken
    THEN [ret |-> None, sess |-> sess]
    ELSE LET session == read[FindByRefreshToken(read, refreshToken)]
             updated == UpdatedSession(session, t, ra, rr)
             deleted == SessionDeleteF(sess, session.accessToken, fd).obj
         IN  [ret |-> Some(updated),
              sess |-> SessionSaveF(deleted, updated, fs).obj]

-----------------------------------------------------------------------------
(* Bookkeeping of the run *)

Keys == {Lowered(e) : e \in Emails}

\* the codes returned for a key, the last two kept
Issue(iss, key, otp) ==
    [iss EXCEPT ![key] = IF Len(@) < 2 THEN Append(@, otp) ELSE <<@[2], otp>>]

NoRun == [key |-> <<>>, n |-> 0, first |-> 0]

\* a submission of inputOTP for email at t extends the run of wrong-code
\* submissions for that key while a code is stored, and ends it otherwise
NextRun(r, store, email, inputOTP, t) ==
    LET key == Lowered(email)
        data == GetOTPData(store, email)
    IN  IF data.currentOTP = NoCode \/ data.currentOTP = inputOTP THEN NoRun
        ELSE IF r.key = key /\ r.n > 0
        THEN [r EXCEPT !.n = IF @ <= MAX_ATTEMPTS + 1 THEN @ + 1 ELSE @]
        ELSE [key |-> key, n |-> 1, first |-> t]

-----------------------------------------------------------------------------
(* Actions *)

Init ==
    /\ now = 1
    /\ calls = 0
    /\ otp_data = <<>>
    /\ parents = <<>>
    /\ sessions = <<>>
    /\ last = [op |-> "none"]
    /\ issued = [k \in Keys |-> <<>>]
    /\ run = NoRun
    /\ children = <<>>
    /\ current_session_token = NoToken
    /\ provider = [session |-> None, parent |-> None, children |-> <<>>,
                   loading |-> TRUE]
    /\ skippedParentProfile = FALSE
    /\ tasks = <<>>

\* time passes between two calls
Tick(instants) ==
    /\ \E t \in instants : t > now /\ now' = t
    /\ UNCHANGED <<ext, calls, otp_data, parents, sessions, last, issued, run>>

\* a call of generateOTPForEmail(email)
GenerateOTPForEmail(email, otp) ==
    LET r == GenerateResult(otp_data, email, otp, now) IN
    /\ otp_data' = r.store
    /\ calls' = IF r.store # otp_data THEN calls + 1 ELSE calls
    /\ last' = [op |-> "generateOTPForEmail", email |-> email, ret |-> r.ret]
    /\ issued' = IF r.ret.success THEN Issue(issued, Lowered(email), otp)
                 ELSE issued
    /\ run' = NoRun
    /\ UNCHANGED <<ext, now, parents, sessions>>

\* a call of validateOTP(email, inputOTP)
ValidateOTP(email, inputOTP) ==
    LET r == ValidateResult(otp_data, email, inputOTP, now) IN
    /\ otp_data' = r.store
    /\ calls' = IF r.store # otp_data THEN calls + 1 ELSE calls
    /\ last' = [op |-> "validateOTP", email |-> email, otp |-> inputOTP,
                ret |-> r.ret]
    /\ run' = NextRun(run, otp_data, email, inputOTP, now)
    /\ UNCHANGED <<ext, now, parents, sessions, issued>>

\* a call of getRemainingAttempts(email)
GetRemainingAttempts(email) ==
    /\ last' = [op |-> "getRemainingAttempts", email |-> email,
                ret |-> GetRemainingAttemptsResult(otp_data, email, now)]
    /\ run' = NoRun
    /\ UNCHANGED <<ext, now, calls, otp_data, parents, sessions, issued>>

\* a call of startSignup(email)
StartSignup(email, otp, isDev) ==
    LET r == StartSignupResult(otp_data, email, otp, isDev, now) IN
    /\ otp_data' = r.store
    /\ calls' = IF r.store # otp_data THEN calls + 1 ELSE calls
    /\ last' = [op |-> "startSignup", email |-> email, ret |-> r.ret,
                isDev |-> isDev]
    /\ issued' = IF r.ret.success THEN Issue(issued, Lowered(email), otp)
                 ELSE issued
    /\ run' = NoRun
    /\ UNCHANGED <<ext, now, parents, sessions>>

\* generateTokens() is reached after a valid code only: the suffixes drawn
DrawnBy(email, inputOTP, rands) ==
    IF ValidateResult(otp_data, email, inputOTP, now).ret.valid THEN rands
    ELSE {CHOOSE r \in rands : TRUE}

\* a call of completeSignup(email, otp)
CompleteSignup(email, inputOTP, rands) ==
    \E ra \in DrawnBy(email, inputOTP, rands), rr \in DrawnBy(email, inputOTP, rands) :
        LET r == CompleteSignupResult(otp_data, parents, sessions,
                                      email, inputOTP, now, ra, rr) IN
        /\ otp_data' = r.otps
        /\ parents' = r.pars
        /\ sessions' = r.sess
        /\ calls' = IF r.otps # otp_data THEN calls + 1 ELSE calls
        /\ last' = [op |-> "completeSignup", email |-> email, otp |-> inputOTP,
                    ret |-> r.ret]
        /\ run' = NextRun(run, otp_data, email, inputOTP, now)
        /\ UNCHANGED <<ext, now, issued>>

\* a call of getSession(accessToken)
GetSession(accessToken) ==
    LET r == GetSessionResult(sessions, accessToken, now) IN
    /\ sessions' = r.sess
    /\ calls' = IF r.sess # sessions THEN calls + 1 ELSE calls
    /\ last' = [op |-> "getSession", token |-> accessToken, ret |-> r.ret,
                found |-> Has(sessions, accessToken)]
    /\ run' = NoRun
    /\ UNCHANGED <<ext, now, otp_data, parents, issued>>

\* generateTokens() is reached after a matching refresh token only: the
\* suffixes drawn
DrawnByRefresh(refreshToken, rands) ==
    IF \E k \in DOMAIN sessions : sessions[k].refreshToken = refreshToken
    THEN rands
    ELSE {CHOOSE r \in rands : TRUE}

\* a call of refreshSession(refreshToken)
RefreshSession(refreshToken, rands) ==
    \E ra \in DrawnByRefresh(refreshToken, rands),
       rr \in DrawnByRefresh(refreshToken, rands) :
        LET r == RefreshSessionResult(sessions, refreshToken, now, ra, rr) IN
        /\ sessions' = r.sess
        /\ calls' = IF r.sess # sessions THEN calls + 1 ELSE calls
        /\ last' = [op |-> "refreshSession", token |-> refreshToken,
                    ret |-> r.ret]
        /\ run' = NoRun
        /\ UNCHANGED <<ext, now, otp_data, parents, issued>>

\* a call of signOut(accessToken)
SignOut(accessToken) ==
    LET r == SignOutResult(sessions, accessToken) IN
    /\ sessions' = r.sess
    /\ calls' = IF r.sess # sessions THEN calls + 1 ELSE calls
    /\ last' = [op |-> "signOut", token |-> accessToken, ret |-> r.ret,
                found |-> Has(sessions, accessToken)]
    /\ run' = NoRun
    /\ UNCHANGED <<ext, now, otp_data, parents, issued>>

\* a call of updateParentProfile(email, profileData)
UpdateParentProfile(email, profileData) ==
    LET r == UpdateParentProfileResult(parents, email, profileData, now) IN
    /\ parents' = r.pars
    /\ calls' = IF r.pars # parents THEN calls + 1 ELSE calls
    /\ last' = [op |-> "updateParentProfile", email |-> email, ret |-> r.ret]
    /\ run' = NoRun
    /\ UNCHANGED <<ext, now, otp_data, sessions, issued>>

\* a call of completeSignup(email, otp) on a medium whose calls can fail
CompleteSignupF(email, inputOTP, rands, fp, fs) ==
    \E ra \in DrawnBy(email, inputOTP, rands), rr \in DrawnBy(email, inputOTP, rands) :
        LET r == CompleteSignupFaulty(otp_data, parents, sessions,
                                      email, inputOTP, now, ra, rr, fp, fs)
            reached == r.ret.success
        IN
        /\ ~reached => fp = NoFault /\ fs = NoFault
        /\ otp_data' = r.otps
        /\ parents' = r.pars
        /\ sessions' = r.sess
        /\ calls' = IF r.otps # otp_data THEN calls + 1 ELSE calls
        /\ last' = [op |-> "completeSignup", email |-> email, otp |-> inputOTP,
                    ret |-> r.ret,
                    failedRead |-> ~fp.get \/ ~fs.get,
                    failedWrite |-> ~fp.set \/ ~fs.set,
                    saved |-> IF reached THEN {fp.set, fs.set} ELSE {}]
        /\ run' = NextRun(run, otp_data, email, inputOTP, now)
        /\ UNCHANGED <<ext, now, issued>>

\* a call of getSession(accessToken) on a medium whose calls can fail
GetSessionF(accessToken, okGet, fd) ==
    LET r == GetSessionFaulty(sessions, accessToken, now, okGet, fd)
        read == accessToken # NoToken
        deletes == /\ read /\ okGet /\ Has(sessions, accessToken)
                   /\ now > ParseDate(sessions[accessToken].expiresAt)
    IN
    /\ ~read => okGet
    /\ ~deletes => fd = NoFault
    /\ sessions' = r.sess
    /\ calls' = IF r.sess # sessions THEN calls + 1 ELSE calls
    /\ last' = [op |-> "getSession", token |-> accessToken, ret |-> r.ret,
                found |-> Has(sessions, accessToken),
                failedRead |-> ~okGet \/ ~fd.get,
                failedWrite |-> ~fd.set,
                saved |-> IF deletes THEN {fd.set} ELSE {}]
    /\ run' = NoRun
    /\ UNCHANGED <<ext, now, otp_data, parents, issued>>

\* a call of refreshSession(refreshToken) on a medium whose calls can fail
RefreshSessionF(refreshToken, rands, okAll, fd, fs) ==
    \E ra \in rands, rr \in rands :
        LET r == RefreshSessionFaulty(sessions, refreshToken, now, ra, rr,
                                      okAll, fd, fs)
            read == refreshToken # NoToken
            reached == r.ret # None
        IN
        /\ ~read => okAll
        /\ ~reached => fd = NoFault /\ fs = NoFault
        /\ sessions' = r.sess
        /\ calls' = IF r.sess # sessions THEN calls + 1 ELSE calls
        /\ last' = [op |-> "refreshSession", token |-> refreshToken,
                    ret |-> r.ret,
                    found |-> Matches(sessions, refreshToken),
                    failedRead |-> ~okAll \/ ~fd.get \/ ~fs.get,
                    failedWrite |-> ~fd.set \/ ~fs.set,
                    saved |-> IF reached THEN {fd.set, fs.set} ELSE {}]
        /\ run' = NoRun
        /\ UNCHANGED <<ext, now, otp_data, parents, issued>>

\* the bound of a run
Within(n) == calls' <= n

\* the session a call has issued, if any
IssuedBy(l) ==
    IF l.op = "completeSignup" /\ l.ret.success THEN {l.ret.session}
    ELSE IF l.op = "refreshSession" /\ l.ret # None THEN {l.ret[1]}
    ELSE {}

\* Math.random() does not return, within one millisecond, a suffix it has
\* returned for a token that is still stored: the tokens of a session issued
\* by the step are those of no row stored before it
FreshTokens ==
    \A s \in IssuedBy(last') : \A j \in DOMAIN sessions :
        /\ j # s.accessToken
        /\ sessions[j].accessToken # s.accessToken
        /\ sessions[j].refreshToken # s.refreshToken

Next ==
    \/ Tick(Instants)
    \/ \E e \in Emails : GenerateOTPForEmail(e, Code1) /\ Within(MaxCalls)
    \/ \E e \in Emails, c \in Inputs : ValidateOTP(e, c) /\ Within(MaxCalls)
    \/ \E e \in Emails, isDev \in BOOLEAN :
          StartSignup(e, Code1, isDev) /\ Within(MaxCalls)
    \/ \E e \in BadEmails : StartSignup(e, Code1, FALSE) /\ Within(MaxCalls)
    \/ \E e \in Emails, c \in Inputs :
          CompleteSignup(e, c, Rand) /\ Within(MaxCalls)

\* Two parents; generateOTP returns one value.
Spec == Init /\ [][Next]_vars

NextCodes ==
    \/ Tick(Instants)
    \/ \E e \in EmailsOfA, c \in Codes :
          GenerateOTPForEmail(e, c) /\ Within(MaxCodesCalls)
    \/ \E e \in EmailsOfA, c \in Codes : ValidateOTP(e, c) /\ Within(MaxCodesCalls)
    \/ \E e \in EmailsOfA, c \in Codes, isDev \in BOOLEAN :
          StartSignup(e, c, isDev) /\ Within(MaxCodesCalls)
    \/ \E e \in EmailsOfA, c \in Codes :
          CompleteSignup(e, c, Rand) /\ Within(MaxCodesCalls)

\* One parent; generateOTP returns either of two values.
SpecCodes == Init /\ [][NextCodes]_vars

NextThrottle ==
    \/ Tick(ThrottleInstants)
    \/ GenerateOTPForEmail(EmailAUpper, Code1) /\ Within(MaxThrottleCalls)
    \/ \E c \in Inputs : ValidateOTP(EmailAUpper, c) /\ Within(MaxThrottleCalls)
    \/ \E c \in Inputs :
          CompleteSignup(EmailAUpper, c, {"r1"}) /\ Within(MaxThrottleCalls)

\* One parent under one spelling, one code and one wrong value, submitted until
\* the cap is met and until the attempts leave the window.
SpecThrottle == Init /\ [][NextThrottle]_vars

NextRequests ==
    \/ Tick(Instants)
    \/ \E e \in EmailsOfA, c \in Codes :
          GenerateOTPForEmail(e, c) /\ Within(MaxRequestCalls)
    \/ \E e \in EmailsOfA, c \in Codes, isDev \in BOOLEAN :
          StartSignup(e, c, isDev) /\ Within(MaxRequestCalls)
    \/ \E e \in BadEmails : StartSignup(e, Code1, FALSE) /\ Within(MaxRequestCalls)

\* Codes are requested and none is submitted.
SpecRequests == Init /\ [][NextRequests]_vars

NextSessions ==
    \/ Tick(SessionInstants)
    \/ StartSignup(EmailAUpper, Code1, TRUE) /\ Within(MaxSessionCalls)
    \/ \E r \in Rand :
          CompleteSignup(EmailAUpper, Code1, {r})
            /\ FreshTokens /\ Within(MaxSessionCalls)
    \/ \E a \in AccessTokens : GetSession(a) /\ Within(MaxSessionCalls)
    \/ \E t \in RefreshTokens, r \in Rand :
          RefreshSession(t, {r}) /\ FreshTokens /\ Within(MaxSessionCalls)
    \/ \E a \in AccessTokens : SignOut(a) /\ Within(MaxSessionCalls)

\* One parent signs up; the sessions are looked up, rotated and revoked.
SpecSessions == Init /\ [][NextSessions]_vars

NextProfile ==
    \/ Tick(Instants)
    \/ StartSignup(EmailAUpper, Code1, TRUE) /\ Within(MaxProfileCalls)
    \/ \E c \in Inputs :
          CompleteSignup(EmailAUpper, c, {"r1"}) /\ Within(MaxProfileCalls)
    \/ \E e \in {EmailAUpper, EmailB}, p \in Profiles :
          UpdateParentProfile(e, p) /\ Within(MaxProfileCalls)

\* One parent signs up, sets the profile and signs up again.
SpecProfile == Init /\ [][NextProfile]_vars

AccountInstants == {1, 2}

StoredRefreshTokens == {sessions[k].refreshToken : k \in DOMAIN sessions}

NextAccounts ==
    \/ Tick(AccountInstants)
    \/ \E e \in {EmailAUpper, EmailB} :
          StartSignup(e, Code1, TRUE) /\ Within(MaxAccountCalls)
    \/ \E e \in {EmailAUpper, EmailB}, c \in Inputs, r \in Rand :
          CompleteSignup(e, c, {r}) /\ FreshTokens /\ Within(MaxAccountCalls)
    \/ \E t \in StoredRefreshTokens \cup {NoToken}, r \in Rand :
          RefreshSession(t, {r}) /\ FreshTokens /\ Within(MaxAccountCalls)

\* Two parents sign up, with the code and with a wrong value, and rotate the
\* sessions they hold.
SpecAccounts == Init /\ [][NextAccounts]_vars

FaultInstants == {1, SESSION_MS + 2}

NextFaults ==
    \/ Tick(FaultInstants)
    \/ StartSignup(EmailAUpper, Code1, TRUE) /\ Within(MaxFaultCalls)
    \/ \E fp \in Faults, fs \in Faults :
          CompleteSignupF(EmailAUpper, Code1, {"r1"}, fp, fs)
            /\ FreshTokens /\ Within(MaxFaultCalls)
    \/ \E a \in AccessTokens, okGet \in BOOLEAN, fd \in Faults :
          GetSessionF(a, okGet, fd) /\ Within(MaxFaultCalls)
    \/ \E t \in StoredRefreshTokens \cup {NoToken},
          okAll \in BOOLEAN, fd \in Faults, fs \in Faults :
          RefreshSessionF(t, {"r2"}, okAll, fd, fs)
            /\ FreshTokens /\ Within(MaxFaultCalls)

\* One parent signs up and the session is looked up and rotated, on a medium
\* whose calls can fail.
SpecFaults == Init /\ [][NextFaults]_vars

\* The clock readings of a run of SpecWindow: the start, and 1 ms before and
\* exactly at the instant at which an attempt made at the start is one window
\* old.
WindowInstants == {1, ATTEMPT_WINDOW_MS, ATTEMPT_WINDOW_MS + 1}

NextWindow ==
    \/ Tick(WindowInstants)
    \/ GenerateOTPForEmail(EmailAUpper, Code1) /\ Within(MaxWindowCalls)
    \/ \E c \in Inputs : ValidateOTP(EmailAUpper, c) /\ Within(MaxWindowCalls)
    \/ \E e \in {EmailAUpper, EmailB} : GetRemainingAttempts(e)

\* One parent meets the cap and waits until the attempts leave the window;
\* the remaining attempts are read in between.
SpecWindow == Init /\ [][NextWindow]_vars

SuccessInstants == {1, 2}

NextSuccesses ==
    \/ Tick(SuccessInstants)
    \/ GenerateOTPForEmail(EmailAUpper, Code1) /\ Within(MaxSuccessCalls)
    \/ \E c \in Inputs : ValidateOTP(EmailAUpper, c) /\ Within(MaxSuccessCalls)

\* One parent requests a code and verifies it, five times over.
SpecSuccesses == Init /\ [][NextSuccesses]_vars

-----------------------------------------------------------------------------
(* childProfileService.js and childrenStorage: the children of a parent *)

MAX_CHILDREN_PER_PARENT == 5
MIN_AGE == 2
MAX_AGE == 14
MIN_NICKNAME_LENGTH == 2
MAX_NICKNAME_LENGTH == 20

\* A date of birth is <<year, month, date>> as getFullYear(), getMonth() and
\* getDate() read it; the empty string is <<>>.

\* new Date(): the calendar date of the clock reading t, for the readings of
\* January 1970 the runs stay in
Today(t) == <<1970, 0, 1 + t \div MS_PER_DAY>>

\* calculateAge(dob)
CalculateAge(dob, t) ==
    LET today == Today(t)
        age == today[1] - dob[1]
        monthDiff == today[2] - dob[2]
    IN  IF monthDiff < 0 \/ (monthDiff = 0 /\ today[3] < dob[3])
        THEN age - 1 ELSE age

\* validateDOB(dob)
ValidateDOB(dob, t) ==
    LET today == Today(t)
        future == \/ dob[1] > today[1]
                  \/ dob[1] = today[1] /\ dob[2] > today[2]
                  \/ dob[1] = today[1] /\ dob[2] = today[2] /\ dob[3] > today[3]
    IN  IF dob = <<>>
        THEN [valid |-> FALSE, error |-> "Date of birth is required"]
        ELSE IF future
        THEN [valid |-> FALSE,
              error |-> "Date of birth cannot be in the future"]
        ELSE IF CalculateAge(dob, t) < MIN_AGE
        THEN [valid |-> FALSE, error |-> "Child must be at least 2 years old"]
        ELSE IF CalculateAge(dob, t) > MAX_AGE
        THEN [valid |-> FALSE,
              error |-> "Child must be 14 years old or younger"]
        ELSE [valid |-> TRUE, error |-> NoError, age |-> CalculateAge(dob, t)]

\* validateNickname(nickname)
ValidateNickname(nickname) ==
    IF nickname = <<>>
    THEN [valid |-> FALSE, error |-> "Nickname is required"]
    ELSE IF Len(Trim(nickname)) < MIN_NICKNAME_LENGTH
    THEN [valid |-> FALSE, error |-> "Nickname must be at least 2 characters"]
    ELSE IF Len(Trim(nickname)) > MAX_NICKNAME_LENGTH
    THEN [valid |-> FALSE,
          error |-> "Nickname must be 20 characters or less"]
    ELSE [valid |-> TRUE, error |-> NoError, nickname |-> Trim(nickname)]

\* validateLanguageProfile(languageProfile)
ValidateLanguageProfile(languageProfile) ==
    IF Trim(languageProfile) = <<>>
    THEN [valid |-> FALSE, error |-> "Language profile is required"]
    ELSE [valid |-> TRUE, error |-> NoError,
          languageProfile |-> Trim(languageProfile)]

\* getChildren(parentEmail), childrenStorage.getByParentEmail(parentEmail)
GetChildren(store, parentEmail) ==
    IF Has(store, Lowered(parentEmail)) THEN store[Lowered(parentEmail)]
    ELSE <<>>

\* canCreateChild(parentEmail), with the bound included
CanCreateChild_Inclusive(store, parentEmail) ==
    Len(GetChildren(store, parentEmail)) <= MAX_CHILDREN_PER_PARENT

\* canCreateChild(parentEmail)
CanCreateChild(store, parentEmail) ==
    Len(GetChildren(store, parentEmail)) < MAX_CHILDREN_PER_PARENT

\* `child_${Date.now()}_${Math.random()...}`
ChildId(t, r) == [kind |-> "child", at |-> t, rnd |-> r]

\* childrenStorage.save(parentEmail, child): the child as saved and the
\* namespace afterwards; a child with the id of a stored child replaces the
\* first such child, any other child is given an id and appended
ChildrenSave(store, parentEmail, child, t, r) ==
    LET list == GetChildren(store, parentEmail)
        hits == IF "id" \in DOMAIN child
                THEN {i \in 1..Len(list) : list[i].id = child.id} ELSE {}
        first == CHOOSE i \in hits : \A j \in hits : i <= j
        named == [f \in (DOMAIN child) \cup {"id"} |->
                    IF f = "id" THEN ChildId(t, r) ELSE child[f]]
    IN  IF hits # {}
        THEN [child |-> child,
              store |-> Put(store, Lowered(parentEmail),
                            [list EXCEPT ![first] = child])]
        ELSE [child |-> named,
              store |-> Put(store, Lowered(parentEmail), Append(list, named))]

\* childrenStorage.delete(parentEmail, childId)
ChildrenDelete(store, parentEmail, childId) ==
    IF ~Has(store, Lowered(parentEmail)) THEN store
    ELSE Put(store, Lowered(parentEmail),
             SelectSeq(store[Lowered(parentEmail)],
                       LAMBDA c : c.id # childId))

\* createChild(parentEmail, childData)
CreateChildResult(store, parentEmail, childData, t, r) ==
    LET nv == ValidateNickname(childData.nickname)
        dv == ValidateDOB(childData.dob, t)
        lv == ValidateLanguageProfile(childData.languageProfile)
        child == [nickname |-> nv.nickname, dob |-> childData.dob,
                  age |-> dv.age, languageProfile |-> lv.languageProfile,
                  avatar |-> None, createdAt |-> ToISOString(t),
                  updatedAt |-> ToISOString(t)]
        saved == ChildrenSave(store, parentEmail, child, t, r)
    IN  IF ~nv.valid
        THEN [ret |-> [success |-> FALSE, error |-> nv.error], store |-> store]
        ELSE IF ~dv.valid
        THEN [ret |-> [success |-> FALSE, error |-> dv.error], store |-> store]
        ELSE IF ~lv.valid
        THEN [ret |-> [success |-> FALSE, error |-> lv.error], store |-> store]
        ELSE IF ~CanCreateChild(store, parentEmail)
        THEN [ret |-> [success |-> FALSE,
                       error |-> "Maximum of 5 children allowed per parent"],
              store |-> store]
        ELSE [ret |-> [success |-> TRUE, child |-> saved.child],
              store |-> saved.store]

\* updateChild(parentEmail, childId, updates)
UpdateChildResult(store, parentEmail, childId, updates, t, r) ==
    LET list == GetChildren(store, parentEmail)
        hits == {i \in 1..Len(list) : list[i].id = childId}
        child == list[CHOOSE i \in hits : \A j \in hits : i <= j]
        hasN == "nickname" \in DOMAIN updates
        hasD == "dob" \in DOMAIN updates
        hasL == "languageProfile" \in DOMAIN updates
        nv == ValidateNickname(updates.nickname)
        dv == ValidateDOB(updates.dob, t)
        lv == ValidateLanguageProfile(updates.languageProfile)
        updated ==
            [child EXCEPT
                !.nickname = IF hasN THEN nv.nickname ELSE @,
                !.dob = IF hasD THEN updates.dob ELSE @,
                !.age = IF hasD THEN dv.age ELSE @,
                !.languageProfile = IF hasL THEN lv.languageProfile ELSE @,
                !.updatedAt = ToISOString(t)]
    IN  IF hits = {}
        THEN [ret |-> [success |-> FALSE, error |-> "Child not found"],
              store |-> store]
        ELSE IF hasN /\ ~nv.valid
        THEN [ret |-> [success |-> FALSE, error |-> nv.error], store |-> store]
        ELSE IF hasD /\ ~dv.valid
        THEN [ret |-> [success |-> FALSE, error |-> dv.error], store |-> store]
        ELSE IF hasL /\ ~lv.valid
        THEN [ret |-> [success |-> FALSE, error |-> lv.error], store |-> store]
        ELSE [ret |-> [success |-> TRUE, child |-> updated],
              store |-> ChildrenSave(store, parentEmail, updated, t, r).store]

\* deleteChild(parentEmail, childId)
DeleteChildResult(store, parentEmail, childId) ==
    [ret |-> [success |-> TRUE],
     store |-> ChildrenDelete(store, parentEmail, childId)]

\* a call of createChild(parentEmail, childData)
CreateChild(parentEmail, childData, rands) ==
    \E r \in rands :
        LET res == CreateChildResult(children, parentEmail, childData, now, r)
        IN
        /\ children' = res.store
        /\ calls' = IF res.store # children THEN calls + 1 ELSE calls
        /\ last' = [op |-> "createChild", email |-> parentEmail,
                    ret |-> res.ret]
        /\ UNCHANGED <<now, otp_data, parents, sessions, issued, run,
                       current_session_token, provider, skippedParentProfile,
                       tasks>>

\* a call of updateChild(parentEmail, childId, updates)
UpdateChild(parentEmail, childId, updates, rands) ==
    \E r \in rands :
        LET res == UpdateChildResult(children, parentEmail, childId, updates,
                                     now, r)
        IN
        /\ children' = res.store
        /\ calls' = IF res.store # children THEN calls + 1 ELSE calls
        /\ last' = [op |-> "updateChild", email |-> parentEmail,
                    id |-> childId, ret |-> res.ret]
        /\ UNCHANGED <<now, otp_data, parents, sessions, issued, run,
                       current_session_token, provider, skippedParentProfile,
                       tasks>>

\* a call of deleteChild(parentEmail, childId)
DeleteChild(parentEmail, childId) ==
    LET res == DeleteChildResult(children, parentEmail, childId) IN
    /\ children' = res.store
    /\ calls' = IF res.store # children THEN calls + 1 ELSE calls
    /\ last' = [op |-> "deleteChild", email |-> parentEmail, id |-> childId,
                ret |-> res.ret]
    /\ UNCHANGED <<now, otp_data, parents, sessions, issued, run,
                   current_session_token, provider, skippedParentProfile,
                   tasks>>

\* The clock readings of a run of SpecChildren.
ChildInstants == {1, 2}

\* The child data callers pass: a child of four, and the same with a nickname
\* too short, born seven months ago, with no date of birth, with a blank
\* language profile.
ChildInputs ==
    {[nickname |-> NameAl, dob |-> <<1966, 0, 1>>,
      languageProfile |-> <<"e", "n">>],
     [nickname |-> NameShort, dob |-> <<1966, 0, 1>>,
      languageProfile |-> <<"e", "n">>],
     [nickname |-> NameAl, dob |-> <<1969, 5, 1>>,
      languageProfile |-> <<"e", "n">>],
     [nickname |-> NameAl, dob |-> <<>>, languageProfile |-> <<"e", "n">>],
     [nickname |-> NameAl, dob |-> <<1966, 0, 1>>,
      languageProfile |-> <<" ">>]}

NextChildren ==
    \/ Tick(ChildInstants)
    \/ \E e \in {EmailAUpper, EmailB}, d \in ChildInputs :
          CreateChild(e, d, {"r1"}) /\ Within(MaxChildCalls)
    \/ \E t \in ChildInstants,
          u \in {[nickname |-> <<"B", "o">>], [dob |-> <<1969, 5, 1>>]} :
          UpdateChild(EmailAUpper, ChildId(t, "r1"), u, {"r1"})
            /\ Within(MaxChildCalls)
    \/ \E t \in ChildInstants :
          DeleteChild(EmailAUpper, ChildId(t, "r1")) /\ Within(MaxChildCalls)

\* Two parents create, update and delete children, one call after the other.
SpecChildren == Init /\ [][NextChildren]_vars

-----------------------------------------------------------------------------
(* AuthContext (AuthProvider) and App.js (AppContent)                        *)
(* current_session_token holds NoToken when the key is absent; the session   *)
(* and the parent of the provider are None for null.                         *)

\* isParentProfileComplete(parent)
IsParentProfileComplete(parent) ==
    /\ parent # None
    /\ "name" \in DOMAIN parent[1]
    /\ Len(Trim(parent[1].name)) >= MIN_NAME_LENGTH

\* what AppContent renders; `parent.email` of a null parent throws
Screen(p, skipped) ==
    IF p.loading THEN "ActivityIndicator"
    ELSE IF p.session = None THEN "AuthFlow"
    ELSE IF /\ ~IsParentProfileComplete(p.parent)
            /\ ~skipped
            /\ ~(/\ p.parent # None
                 /\ "skippedProfileSetup" \in DOMAIN p.parent[1]
                 /\ p.parent[1].skippedProfileSetup)
    THEN (IF p.parent = None THEN "TypeError" ELSE "CreateParentProfile")
    ELSE IF Len(p.children) = 0
    THEN (IF p.parent = None THEN "TypeError" ELSE "CreateChildProfile")
    ELSE "HomeScreen"

\* getParentFromSession(accessToken): the parent returned and the sessions
\* namespace afterwards
GetParentFromSession(sess, pars, accessToken, t) ==
    LET g == GetSessionResult(sess, accessToken, t) IN
    IF g.ret = None THEN [ret |-> None, sess |-> g.sess]
    ELSE IF Has(pars, Lowered(g.ret[1].parentEmail))
    THEN [ret |-> Some(pars[Lowered(g.ret[1].parentEmail)]), sess |-> g.sess]
    ELSE [ret |-> None, sess |-> g.sess]

\* loadSession() that leaves the key of a token that resolves to no session
LoadSessionResult_KeepPointer(sess, pars, kids, token, t) ==
    LET g == GetSessionResult(sess, token, t) IN
    IF token = NoToken \/ g.ret = None
    THEN [provider |-> [session |-> None, parent |-> None, children |-> <<>>,
                        loading |-> FALSE],
          token |-> token, sess |-> g.sess]
    ELSE [provider |-> [session |-> g.ret,
                        parent |-> GetParentFromSession(g.sess, pars, token,
                                                        t).ret,
                        children |-> GetChildren(kids, g.ret[1].parentEmail),
                        loading |-> FALSE],
          token |-> token, sess |-> g.sess]

\* the provider as mounted, then loadSession(): the state of the provider,
\* the stored token and the sessions namespace afterwards
LoadSessionResult(sess, pars, kids, token, t) ==
    LET g == GetSessionResult(sess, token, t) IN
    IF token = NoToken
    THEN [provider |-> [session |-> None, parent |-> None, children |-> <<>>,
                        loading |-> FALSE],
          token |-> token, sess |-> sess]
    ELSE IF g.ret = None
    THEN [provider |-> [session |-> None, parent |-> None, children |-> <<>>,
                        loading |-> FALSE],
          token |-> NoToken, sess |-> g.sess]
    ELSE [provider |-> [session |-> g.ret,
                        parent |-> GetParentFromSession(g.sess, pars, token,
                                                        t).ret,
                        children |-> GetChildren(kids, g.ret[1].parentEmail),
                        loading |-> FALSE],
          token |-> token, sess |-> g.sess]

\* the application is launched: AuthProvider mounts and loadSession() runs
LoadSession ==
    LET r == LoadSessionResult(sessions, parents, children,
                               current_session_token, now) IN
    /\ provider' = r.provider
    /\ current_session_token' = r.token
    /\ sessions' = r.sess
    /\ skippedParentProfile' = FALSE
    /\ last' = [op |-> "loadSession", token |-> current_session_token]
    /\ run' = NoRun
    /\ UNCHANGED <<now, calls, otp_data, parents, issued, children, tasks>>

\* handleAuthSuccess(sessionData, parentData) with what the completeSignup
\* of the AuthFlow has just returned: signIn(sessionData, parentData)
HandleAuthSuccess ==
    /\ Screen(provider, skippedParentProfile) = "AuthFlow"
    /\ last.op = "completeSignup" /\ last.ret.success
    /\ provider' = [session |-> Some(last.ret.session),
                    parent |-> Some(last.ret.parent),
                    children |-> GetChildren(children,
                                             last.ret.session.parentEmail),
                    loading |-> provider.loading]
    /\ current_session_token' = last.ret.session.accessToken
    /\ skippedParentProfile' = FALSE
    /\ calls' = calls + 1
    /\ last' = [op |-> "signIn", token |-> last.ret.session.accessToken]
    /\ UNCHANGED <<now, otp_data, parents, sessions, issued, run, children,
                   tasks>>

\* signOut() of the AuthProvider
ProviderSignOut ==
    /\ provider.session # None
    /\ provider' = [session |-> None, parent |-> None, children |-> <<>>,
                    loading |-> provider.loading]
    /\ current_session_token' = NoToken
    /\ last' = [op |-> "AuthProvider.signOut",
                token |-> provider.session[1].accessToken]
    /\ UNCHANGED <<now, calls, otp_data, parents, sessions, issued, run,
                   children, skippedParentProfile, tasks>>

\* handleSkipParentProfile(): the flag is set and saved, then refreshParent()
HandleSkipParentProfile ==
    LET u == UpdateParentProfileResult(parents, provider.parent[1].email,
                                       [skippedProfileSetup |-> TRUE], now)
        g == GetParentFromSession(sessions, u.pars,
                                  provider.session[1].accessToken, now)
    IN
    /\ Screen(provider, skippedParentProfile) = "CreateParentProfile"
    /\ skippedParentProfile' = TRUE
    /\ IF provider.parent # None
       THEN /\ parents' = u.pars
            /\ sessions' = g.sess
            /\ provider' = [provider EXCEPT !.parent = g.ret]
       ELSE UNCHANGED <<parents, sessions, provider>>
    /\ calls' = calls + 1
    /\ last' = [op |-> "handleSkipParentProfile"]
    /\ UNCHANGED <<now, otp_data, issued, run, children,
                   current_session_token, tasks>>

\* handleSkipChildProfile(), the onSkip of CreateChildProfile
HandleSkipChildProfile ==
    /\ Screen(provider, skippedParentProfile) = "CreateChildProfile"
    /\ last' = [op |-> "handleSkipChildProfile"]
    /\ UNCHANGED <<now, calls, otp_data, parents, sessions, issued, run, ext>>

\* handleChildCreated() after the createChild of CreateChildProfile has
\* succeeded: refreshChildren()
HandleChildCreated ==
    /\ Screen(provider, skippedParentProfile) = "CreateChildProfile"
    /\ last.op = "createChild" /\ last.ret.success
    /\ Lowered(last.email) = Lowered(provider.session[1].parentEmail)
    /\ provider' = [provider EXCEPT
                      !.children = GetChildren(children,
                                               provider.session[1].parentEmail)]
    /\ last' = [op |-> "handleChildCreated"]
    /\ UNCHANGED <<now, calls, otp_data, parents, sessions, issued, run,
                   children, current_session_token, skippedParentProfile,
                   tasks>>

\* The clock readings of a run of SpecApp: the start, and 1 ms after the
\* expiry of a session created at the start.
AppInstants == {1, SESSION_MS + 2}

NextApp ==
    \/ Tick(AppInstants)
    \/ StartSignup(EmailAUpper, Code1, TRUE) /\ Within(MaxAppCalls)
    \/ CompleteSignup(EmailAUpper, Code1, {"r1"})
         /\ FreshTokens /\ Within(MaxAppCalls)
    \/ HandleAuthSuccess /\ Within(MaxAppCalls)
    \/ LoadSession
    \/ ProviderSignOut
    \/ HandleSkipParentProfile /\ Within(MaxAppCalls)
    \/ HandleSkipChildProfile
    \/ \E d \in ChildInputs :
          /\ Screen(provider, skippedParentProfile) = "CreateChildProfile"
          /\ CreateChild(provider.parent[1].email, d, {"r1"})
          /\ Within(MaxAppCalls)
    \/ HandleChildCreated
    \/ \E a \in AccessTokens : GetSession(a)
    \/ \E t \in StoredRefreshTokens :
          RefreshSession(t, {"r2"}) /\ FreshTokens /\ Within(MaxAppCalls)

\* A parent signs up and in, skips the profile of the parent, skips or
\* creates a child, signs out; the application is launched again; the
\* sessions are looked up and rotated.
SpecApp == Init /\ [][NextApp]_vars

-----------------------------------------------------------------------------
(* Calls that overlap.  A call runs up to its next await of AsyncStorage,    *)
(* and another call may run before it is resumed.  tasks[i] is the i-th call *)
(* made: op, arg, otp the call and its arguments, rnd the suffix of the      *)
(* tokens it draws, pc the await it stands at, snap the namespace as its     *)
(* last getItem read it, out what it has computed, ret what it returned      *)
(* (at pc "done"), alone whether no call was in flight when it was made.     *)

\* completeSignup(email, otp) resumed at the await k.pc: the call and the
\* three namespaces afterwards
CompleteSignupAwait(k, otps, pars, sess, t) ==
    LET v == ValidateResult(otps, k.arg, k.otp, t)
        same == [task |-> k, otps |-> otps, pars |-> pars, sess |-> sess]
        refusal == [success |-> FALSE, error |-> k.out.ret.error]
        session == NewSession(k.arg, t, k.rnd, k.rnd)
    IN  CASE k.pc = "getOTPData" ->
               IF v.store = otps
               THEN [same EXCEPT !.task.pc = "done",
                                 !.task.ret = [success |-> FALSE,
                                               error |-> v.ret.error]]
               ELSE [same EXCEPT !.task.pc = "otp_data.getItem",
                                 !.task.out =
                                     [ret |-> v.ret,
                                      data |-> v.store[Lowered(k.arg)]]]
          [] k.pc = "otp_data.getItem" ->
               [same EXCEPT !.task.pc = "otp_data.setItem",
                            !.task.snap = otps]
          [] k.pc = "otp_data.setItem" ->
               IF k.out.ret.valid
               THEN [same EXCEPT !.task.pc = "parents.getItem",
                                 !.otps = OtpSave(k.snap, k.arg, k.out.data)]
               ELSE [same EXCEPT !.task.pc = "done", !.task.ret = refusal,
                                 !.otps = OtpSave(k.snap, k.arg, k.out.data)]
          [] k.pc = "parents.getItem" ->
               [same EXCEPT !.task.pc = "parents.setItem",
                            !.task.snap = pars]
          [] k.pc = "parents.setItem" ->
               [same EXCEPT !.task.pc = "sessions.getItem",
                            !.pars = ParentSave(k.snap, NewParent(k.arg, t))]
          [] k.pc = "sessions.getItem" ->
               [same EXCEPT !.task.pc = "sessions.setItem",
                            !.task.snap = sess]
          [] k.pc = "sessions.setItem" ->
               [same EXCEPT !.task.pc = "done",
                            !.task.ret = [success |-> TRUE,
                                          session |-> session,
                                          parent |-> NewParent(k.arg, t)],
                            !.sess = SessionSave(k.snap, session)]

\* refreshSession(refreshToken) resumed at the await k.pc: the call and the
\* sessions namespace afterwards
RefreshSessionAwait(k, sess, t) ==
    LET same == [task |-> k, sess |-> sess]
        old == sess[FindByRefreshToken(sess, k.arg)]
    IN  CASE k.pc = "getAll" ->
               IF ~Matches(sess, k.arg)
               THEN [same EXCEPT !.task.pc = "done", !.task.ret = None]
               ELSE [same EXCEPT
                       !.task.pc = "delete.getItem",
                       !.task.out =
                           [old |-> old.accessToken,
                            updated |-> UpdatedSession(old, t, k.rnd, k.rnd)]]
          [] k.pc = "delete.getItem" ->
               [same EXCEPT !.task.pc = "delete.setItem", !.task.snap = sess]
          [] k.pc = "delete.setItem" ->
               [same EXCEPT !.task.pc = "save.getItem",
                            !.sess = Del(k.snap, k.out.old)]
          [] k.pc = "save.getItem" ->
               [same EXCEPT !.task.pc = "save.setItem", !.task.snap = sess]
          [] k.pc = "save.setItem" ->
               [same EXCEPT !.task.pc = "done",
                            !.task.ret = Some(k.out.updated),
                            !.sess = SessionSave(k.snap, k.out.updated)]

\* a call of completeSignup(arg, otp) or of refreshSession(arg) is made and
\* runs up to its first await; the call draws the suffix r
Call(op, arg, otp, r) ==
    /\ tasks' = Append(tasks,
                  [op |-> op, arg |-> arg, otp |-> otp, rnd |-> r,
                   pc |-> IF op = "completeSignup" THEN "getOTPData"
                          ELSE "getAll",
                   snap |-> <<>>, out |-> <<>>, ret |-> <<>>,
                   alone |-> \A i \in DOMAIN tasks : tasks[i].pc = "done"])
    /\ last' = [op |-> "call", task |-> Len(tasks) + 1]
    /\ UNCHANGED <<now, calls, otp_data, parents, sessions, issued, run,
                   children, current_session_token, provider,
                   skippedParentProfile>>

\* the call tasks[i] is resumed and runs up to its next await or its return
Resume(i) ==
    LET k == tasks[i]
        c == CompleteSignupAwait(k, otp_data, parents, sessions, now)
        r == RefreshSessionAwait(k, sessions, now)
    IN
    /\ k.pc # "done"
    /\ IF k.op = "completeSignup"
       THEN /\ tasks' = [tasks EXCEPT ![i] = c.task]
            /\ otp_data' = c.otps
            /\ parents' = c.pars
            /\ sessions' = c.sess
       ELSE /\ tasks' = [tasks EXCEPT ![i] = r.task]
            /\ sessions' = r.sess
            /\ UNCHANGED <<otp_data, parents>>
    /\ calls' = IF k.pc \in {"otp_data.setItem", "parents.setItem",
                             "sessions.setItem", "delete.setItem",
                             "save.setItem"}
                THEN calls + 1 ELSE calls
    /\ last' = [op |-> "resume", task |-> i]
    /\ UNCHANGED <<now, issued, run, children, current_session_token,
                   provider, skippedParentProfile>>

\* the calls of op that have returned
Returned(op) ==
    {i \in DOMAIN tasks : tasks[i].op = op /\ tasks[i].pc = "done"}

NextOverlap ==
    \/ \E e \in {EmailAUpper, EmailB} :
          /\ \A i \in DOMAIN tasks : tasks[i].pc = "done"
          /\ StartSignup(e, Code1, TRUE) /\ Within(MaxOverlapCalls)
    \/ /\ Len(tasks) = 0
       /\ CompleteSignup(EmailB, Code1, {"r1"})
       /\ FreshTokens /\ Within(MaxOverlapCalls)
    \/ \E e \in {EmailAUpper, EmailB} :
          \/ Len(tasks) = 0 /\ Call("completeSignup", e, Code1, "r3")
          \/ Len(tasks) = 1 /\ Call("completeSignup", e, Code1, "r4")
    \/ \E t \in StoredRefreshTokens :
          Len(tasks) = 0 /\ Call("refreshSession", t, Code1, "r3")
    \/ \E t \in StoredRefreshTokens
                  \cup {tasks[i].arg : i \in Returned("refreshSession")} :
          Len(tasks) = 1 /\ Call("refreshSession", t, Code1, "r4")
    \/ \E i \in DOMAIN tasks : Resume(i) /\ Within(MaxOverlapCalls)

\* Two parents request codes and one signs up; then two calls of
\* completeSignup or refreshSession are made, the second with a refresh token
\* that is stored or that the first was made with; the two may overlap each
\* other at every await of AsyncStorage, and startSignup runs while no call
\* is in flight.  The clock stands still.
SpecOverlap == Init /\ [][NextOverlap]_vars

-----------------------------------------------------------------------------
(* Vocabulary of the properties *)

IsRequest(l) == l.op \in {"generateOTPForEmail", "startSignup"}
IsSubmit(l) == l.op \in {"validateOTP", "completeSignup"}

\* the request returned a code
Granted(l) == IsRequest(l) /\ l.ret.success

\* the request returned the throttled error
ThrottledRequest(l) ==
    IsRequest(l) /\ ~l.ret.success /\ l.ret.error = ErrTooManyRequest

\* the submission returned Valid
Accepted(l) ==
    IsSubmit(l) /\ (IF l.op = "validateOTP" THEN l.ret.valid ELSE l.ret.success)

\* the submission returned the error err
Refused(l, err) == IsSubmit(l) /\ ~Accepted(l) /\ l.ret.error = err

Attempts(store, key) == IF Has(store, key) THEN store[key].attempts ELSE <<>>
LiveCode(store, key) == IF Has(store, key) THEN store[key].currentOTP ELSE NoCode
GeneratedAt(store, key) ==
    IF Has(store, key) THEN store[key].otpGeneratedAt ELSE NoTime

\* the code most recently returned for key
LatestCode(iss, key) == iss[key][Len(iss[key])]

\* the number of attempts within the trailing 60 minutes
InWindow(attempts, t) ==
    Cardinality({i \in 1..Len(attempts) : t - attempts[i].timestamp < 3600000})

\* a code is stored for key and has not expired at t
Live(store, key, t) ==
    LiveCode(store, key) # NoCode /\ t - GeneratedAt(store, key) <= 600000

\* the step is a call of a handler that submits a code, or that requests one
SubmitStep == now' = now /\ IsSubmit(last')
RequestStep == now' = now /\ IsRequest(last')

\* the attempts of key after the step are those before it and one more
AppendedOne(key) ==
    /\ Len(Attempts(otp_data', key)) = Len(Attempts(otp_data, key)) + 1
    /\ SubSeq(Attempts(otp_data', key), 1, Len(Attempts(otp_data, key)))
         = Attempts(otp_data, key)

LastAttempt(store, key) == Attempts(store, key)[Len(Attempts(store, key))]

-----------------------------------------------------------------------------
(* Properties *)

C1_Step ==
    SubmitStep =>
        LET key == Lowered(last'.email) IN
        /\ (/\ Granted(last)
            /\ Lowered(last.email) = key
            /\ last'.otp = LatestCode(issued, key)
            /\ now <= last.ret.expiresAt) => Accepted(last')
        /\ (/\ Accepted(last)
            /\ Lowered(last.email) = key
            /\ last'.otp = last.otp) => Refused(last', ErrNoOTP)

\* C1: a submission of the code a request has just returned, made for the same
\* email (in any spelling) before the code expires and with no other call in
\* between, returns Valid, through validateOTP and through completeSignup;
\* the same code submitted again right after returns 'No OTP found'.
C1_VerifiesExactlyOnce == [][C1_Step]_vars

\* completeSignup has created the account with the only attempt recorded for
\* the key, and the same code submitted again was answered 'No OTP found'
C1_Witness ==
    /\ last.op = "completeSignup"
    /\ Refused(last, ErrNoOTP)
    /\ Has(parents, Lowered(last.email))
    /\ Len(Attempts(otp_data, Lowered(last.email))) = 1
    /\ LastAttempt(otp_data, Lowered(last.email)).success
    /\ LastAttempt(otp_data, Lowered(last.email)).otp = last.otp

C2_Step ==
    SubmitStep =>
        LET key == Lowered(last'.email) IN
        (/\ Live(otp_data, key, now)
         /\ InWindow(Attempts(otp_data, key), now) >= 5) =>
            /\ Refused(last', ErrTooMany)
            /\ otp_data' = otp_data
            /\ parents' = parents
            /\ sessions' = sessions

\* C2: while a code is stored and unexpired and five or more attempts lie
\* within the trailing 60 minutes, every submission, of the stored code too,
\* returns 'Too many attempts' and changes neither the OTP record (the code
\* stays stored) nor the accounts nor the sessions.
C2_ThrottledBeforeCompare == [][C2_Step]_vars

\* completeSignup with the stored, unexpired code was answered 'Too many
\* attempts', and no account exists
C2_Witness ==
    /\ last.op = "completeSignup"
    /\ Refused(last, ErrTooMany)
    /\ Live(otp_data, Lowered(last.email), now)
    /\ last.otp = LiveCode(otp_data, Lowered(last.email))
    /\ InWindow(Attempts(otp_data, Lowered(last.email)), now) >= 5
    /\ parents = <<>>
    /\ sessions = <<>>

\* the attempt record a submission answered as in l is to leave
AttemptOf(l, t) ==
    [otp |-> l.otp, timestamp |-> t, success |-> Accepted(l),
     reason |-> IF Accepted(l) THEN NoReason
                ELSE IF l.ret.error = ErrExpired THEN "expired"
                ELSE "invalid"]

\* the submission of the step appended its attempt record and nothing else
RecordedOne(key) ==
    /\ AppendedOne(key)
    /\ LastAttempt(otp_data', key) = AttemptOf(last', now)
    /\ \A k \in Keys \ {key} : Attempts(otp_data', k) = Attempts(otp_data, k)

\* the submission of the step appended nothing
RecordedNone == \A k \in Keys : Attempts(otp_data', k) = Attempts(otp_data, k)

C3_StepAsClaimed ==
    SubmitStep =>
        IF Refused(last', ErrNoOTP) THEN RecordedNone
        ELSE RecordedOne(Lowered(last'.email))

\* C3 as stated: every submission that is not answered 'No OTP found' (Valid,
\* Invalid, Expired, Throttled) appends exactly one attempt record; one that
\* is answered 'No OTP found' appends nothing.
C3_EveryOutcomeRecorded == [][C3_StepAsClaimed]_vars

C3_Step ==
    SubmitStep =>
        LET key == Lowered(last'.email) IN
        IF \/ Refused(last', ErrNoOTP)
           \/ /\ Refused(last', ErrTooMany)
              /\ InWindow(Attempts(otp_data, key), now) >= 5
        THEN RecordedNone
        ELSE RecordedOne(key)

\* C3, amended: a submission answered Valid, Invalid or Expired, or answered
\* 'Too many attempts' when fewer than five attempts were in the window before
\* it, appends exactly one attempt record {submitted, now, success, reason};
\* one answered 'No OTP found', or answered 'Too many attempts' when five or
\* more attempts were already in the window, appends nothing.
C3_OutcomesRecorded == [][C3_Step]_vars

\* validateOTP with the stored code was answered 'Too many attempts' and the
\* record holds the five attempts it held before
C3_Witness ==
    /\ last.op = "validateOTP"
    /\ Refused(last, ErrTooMany)
    /\ last.otp = LiveCode(otp_data, Lowered(last.email))
    /\ Len(Attempts(otp_data, Lowered(last.email))) = 5

C4_Step ==
    SubmitStep =>
        LET key == Lowered(last'.email) IN
        (/\ AppendedOne(key)
         /\ ~LastAttempt(otp_data', key).success
         /\ InWindow(Attempts(otp_data', key), now) >= 5) =>
            /\ Refused(last', ErrTooMany)
            /\ LastAttempt(otp_data', key).reason \in {"invalid", "expired"}

\* C4: a submission that appends a failing attempt (reason 'invalid' or
\* 'expired') with which five or more attempts lie in the window returns
\* 'Too many attempts', and the attempt keeps its reason.
C4_RecheckAfterFailure == [][C4_Step]_vars

\* C5: the sixth of six consecutive wrong-code submissions for one email,
\* made within one hour while a code is stored, returns 'Too many attempts'.
C5_SixthThrottled ==
    (run.n = 6 /\ now - run.first < 3600000) => Refused(last, ErrTooMany)

\* C6: no OTP record ever holds more than 5 attempts within the trailing
\* 60 minutes.
C6_AtMostFiveInWindow ==
    \A k \in DOMAIN otp_data : InWindow(otp_data[k].attempts, now) <= 5

C7_Step ==
    SubmitStep =>
        LET key == Lowered(last'.email)
            expiresAt == GeneratedAt(otp_data, key) + 600000
        IN  LiveCode(otp_data, key) # NoCode =>
              /\ (/\ now = expiresAt - 1
                  /\ last'.otp = LiveCode(otp_data, key)
                  /\ InWindow(Attempts(otp_data, key), now) < 5) =>
                     Accepted(last')
              /\ now = expiresAt + 1 =>
                     /\ Refused(last', ErrExpired)
                     /\ AppendedOne(key)
                     /\ LastAttempt(otp_data', key) =
                           [otp |-> last'.otp, timestamp |-> now,
                            success |-> FALSE, reason |-> "expired"]

\* C7: the stored code, generated at g, is accepted when it is submitted at
\* g + 10 min - 1 ms with fewer than five attempts in the window; a submission
\* at g + 10 min + 1 ms returns 'Code expired' and appends a failed attempt
\* with reason 'expired'.
C7_ExpiryBoundary == [][C7_Step]_vars

\* the code generated at the start was submitted 1 ms after its expiry and
\* answered 'Code expired'; the attempt is recorded
C7_Witness ==
    /\ Refused(last, ErrExpired)
    /\ LiveCode(otp_data, Lowered(last.email)) = last.otp
    /\ now = GeneratedAt(otp_data, Lowered(last.email)) + 600000 + 1
    /\ Len(Attempts(otp_data, Lowered(last.email))) = 1
    /\ LastAttempt(otp_data, Lowered(last.email)).reason = "expired"

C8_Step ==
    RequestStep =>
        LET key == Lowered(last'.email) IN
        IF InWindow(Attempts(otp_data, key), now) >= 5
        THEN /\ ThrottledRequest(last')
             /\ otp_data' = otp_data
        ELSE /\ Granted(last')
             /\ last'.ret.expiresAt = now + 600000
             /\ LiveCode(otp_data', key) = LatestCode(issued', key)
             /\ last'.op = "generateOTPForEmail" =>
                    LiveCode(otp_data', key) = last'.ret.otp
             /\ GeneratedAt(otp_data', key) = now
             /\ Attempts(otp_data', key) = Attempts(otp_data, key)
             /\ \A k \in (DOMAIN otp_data) \ {key} :
                    Has(otp_data', k) /\ otp_data'[k] = otp_data[k]

\* C8: generateOTPForEmail for an email with five or more attempts within the
\* trailing 60 minutes returns the throttled error and leaves the OTP
\* namespace as it was; with fewer it succeeds, stores the new code with
\* generation time now, keeps the attempts, and returns expiresAt = now +
\* 600000 ms.
C8_RequestThrottledOrStored == [][C8_Step]_vars

\* a request was refused with five attempts in the window, the sixth one
\* (if any) being older than the window
C8_Witness ==
    /\ ThrottledRequest(last)
    /\ InWindow(Attempts(otp_data, Lowered(last.email)), now) >= 5
    /\ now = 3600001

\* a request succeeded at the instant at which the five attempts recorded
\* for the email had left the window
C8_WitnessAged ==
    /\ Granted(last)
    /\ Len(Attempts(otp_data, Lowered(last.email))) >= 5
    /\ InWindow(Attempts(otp_data, Lowered(last.email)), now) = 0
    /\ GeneratedAt(otp_data, Lowered(last.email)) = now

C9_Step ==
    /\ (SubmitStep /\ Accepted(last')) =>
          /\ issued[Lowered(last'.email)] # <<>>
          /\ last'.otp = LatestCode(issued, Lowered(last'.email))
    /\ \A k \in DOMAIN otp_data' :
          otp_data'[k].currentOTP # NoCode =>
              otp_data'[k].currentOTP = LatestCode(issued', k)

\* C9: a record stores one code, the one most recently returned for the
\* email, and a submission returns Valid only for that code: after a second
\* successful request the code of the first, when different, is not accepted.
C9_OnlyLatestCodeVerifies == [][C9_Step]_vars

\* two different codes were returned for the email, and the first, submitted
\* before either expired, was answered 'Invalid code'
C9_Witness ==
    /\ IsSubmit(last)
    /\ Len(issued[Lowered(last.email)]) = 2
    /\ issued[Lowered(last.email)][1] # issued[Lowered(last.email)][2]
    /\ last.otp = issued[Lowered(last.email)][1]
    /\ Refused(last, ErrInvalid)
    /\ LiveCode(otp_data, Lowered(last.email)) = issued[Lowered(last.email)][2]

C10_Step ==
    RequestStep =>
        /\ \A k \in Keys : Attempts(otp_data', k) = Attempts(otp_data, k)
        /\ ~ThrottledRequest(last')

\* C10: when codes are requested and none is submitted, no call of
\* generateOTPForEmail or startSignup adds an attempt record, and none returns
\* the throttled error, however many are made.
C10_RequestsNotCounted == [][C10_Step]_vars

\* the seventh request that stored a code succeeded, and no attempt is
\* recorded
C10_Witness ==
    /\ calls = 7
    /\ Granted(last)
    /\ \A k \in Keys : Attempts(otp_data, k) = <<>>

\* the step is a call of completeSignup
CompleteSignupStep == now' = now /\ last'.op = "completeSignup"

\* what validateOTP answers to the submission of the step
Verification == ValidateResult(otp_data, last'.email, last'.otp, now).ret

C11_Step ==
    (CompleteSignupStep /\ ~Verification.valid) =>
        /\ last'.ret = [success |-> FALSE, error |-> Verification.error]
        /\ Verification.error \in {ErrNoOTP, ErrExpired, ErrInvalid, ErrTooMany}
        /\ parents' = parents
        /\ sessions' = sessions

\* C11: a completeSignup whose code validateOTP does not find valid ('No OTP
\* found', 'Code expired', 'Invalid code', 'Too many attempts') returns
\* {success: false, error} with that error and leaves the parents namespace
\* and the sessions namespace as they were.
C11_FailureLeavesAccounts == [][C11_Step]_vars

\* completeSignup was answered 'Code expired' while an account and a session
\* of an earlier sign-up are stored
C11_Witness ==
    /\ last.op = "completeSignup"
    /\ Refused(last, ErrExpired)
    /\ Has(parents, Lowered(last.email))
    /\ sessions # <<>>

C12_Step ==
    (CompleteSignupStep /\ Accepted(last')) =>
        LET key == Lowered(last'.email) IN
        /\ Has(parents', key)
        /\ Has(parents, key) =>
              \A f \in (DOMAIN parents[key]) \ {"updatedAt"} :
                  /\ f \in DOMAIN parents'[key]
                  /\ parents'[key][f] = parents[key][f]

\* C12: a successful completeSignup for an email whose parent row exists
\* leaves every field of that row (name, skippedProfileSetup, createdAt) as
\* it was, updatedAt excepted; the row is created when it is absent.
C12_ResignupKeepsProfile == [][C12_Step]_vars

\* the session rows the step wrote: keys that are new or hold another row
WrittenSessions ==
    {k \in DOMAIN sessions' : ~Has(sessions, k) \/ sessions'[k] # sessions[k]}

WrittenParents ==
    {k \in DOMAIN parents' : ~Has(parents, k) \/ parents'[k] # parents[k]}

\* the step is a completeSignup for key whose code validateOTP finds valid,
\* after a request has returned a code for key
VerifiedSignup(key) ==
    /\ CompleteSignupStep /\ Lowered(last'.email) = key
    /\ Verification.valid /\ Accepted(last')
    /\ issued[key] # <<>>

\* the step is a refreshSession that retired a row of the same account
RotatedFrom(key) ==
    /\ now' = now /\ last'.op = "refreshSession"
    /\ \E j \in (DOMAIN sessions) \ (DOMAIN sessions') :
          /\ sessions[j].parentEmail = key
          /\ sessions[j].refreshToken = last'.token

\* a successful attempt is recorded for key
HasVerified(store, key) ==
    \E i \in 1..Len(Attempts(store, key)) : Attempts(store, key)[i].success

C13_Step ==
    /\ \A k \in WrittenSessions :
          \/ VerifiedSignup(sessions'[k].parentEmail)
          \/ RotatedFrom(sessions'[k].parentEmail)
    /\ \A k \in WrittenParents :
          VerifiedSignup(k) \/ (last'.op = "updateParentProfile" /\ Has(parents, k))
    /\ \A k \in DOMAIN sessions' :
          /\ issued'[sessions'[k].parentEmail] # <<>>
          /\ HasVerified(otp_data', sessions'[k].parentEmail)
          /\ Has(parents', sessions'[k].parentEmail)
    /\ \A k \in DOMAIN parents' : issued'[k] # <<>> /\ HasVerified(otp_data', k)

\* C13: a session row or an account row is written only by a completeSignup
\* whose code validateOTP finds valid, for the email of that call and after a
\* request has returned a code for it, or (a session row) by a refreshSession
\* that retires a row of the same account; hence every stored session and
\* every stored account belongs to an email for which a code was returned and
\* a successful attempt is recorded.
C13_VerifiedBeforeSession == [][C13_Step]_vars

\* two accounts exist and the session of the second was rotated
C13_Witness ==
    /\ last.op = "refreshSession" /\ last.ret # None
    /\ last.ret[1].parentEmail = Lowered(EmailB)
    /\ Has(parents, Lowered(EmailAUpper))
    /\ issued[Lowered(EmailAUpper)] # <<>>

\* the step is a call of refreshSession, or of getSession
RefreshSessionStep == now' = now /\ last'.op = "refreshSession"
GetSessionStep == now' = now /\ last'.op = "getSession"

C14_Step ==
    (RefreshSessionStep /\ last'.ret # None) =>
        LET old == sessions[FindByRefreshToken(sessions, last'.token)]
            new == last'.ret[1]
        IN  /\ Matches(sessions, last'.token)
            /\ ~Has(sessions', old.accessToken)
            /\ GetSessionResult(sessions', old.accessToken, now).ret = None
            /\ new.accessToken # old.accessToken
            /\ ~Has(sessions, new.accessToken)
            /\ Has(sessions', new.accessToken)
            /\ sessions'[new.accessToken] = new

\* C14: when refreshSession(r) returns a session, the row that held r, with
\* access token t, is gone: no row is keyed t, getSession(t) called at once
\* returns null, and the session returned is stored under its own access
\* token, one that differs from t and keyed no row before.
C14_RotationRetiresOldToken == [][C14_Step]_vars

\* a session was rotated while a second session was stored
C14_Witness ==
    /\ last.op = "refreshSession" /\ last.ret # None
    /\ Cardinality(DOMAIN sessions) = 2

C15_Step ==
    (GetSessionStep /\ Has(sessions, last'.token)) =>
        LET row == sessions[last'.token] IN
        IF now > ParseDate(row.expiresAt)
        THEN /\ last'.ret = None
             /\ sessions' = Del(sessions, last'.token)
             /\ ~Has(sessions', last'.token)
        ELSE /\ last'.ret = Some(row)
             /\ sessions' = sessions

\* C15: getSession(t) on a stored session returns null and deletes the row,
\* and no other, when now > expiresAt; when now <= expiresAt it returns the
\* row and leaves the sessions namespace as it was.
C15_LookupExpires == [][C15_Step]_vars

\* a session issued at the start was looked up 1 ms after its expiry and
\* deleted, while a younger session stays stored
C15_Witness ==
    /\ last.op = "getSession" /\ last.found /\ last.ret = None
    /\ now = SESSION_MS + 2
    /\ ~Has(sessions, last.token)
    /\ sessions # <<>>

\* a session issued at the start was looked up at the instant of its expiry
\* and returned
C15_WitnessAtExpiry ==
    /\ last.op = "getSession" /\ last.ret # None
    /\ ParseDate(last.ret[1].expiresAt) = now

C19_Step ==
    (RefreshSessionStep /\ Matches(sessions, last'.token)) =>
        /\ last'.ret # None
        /\ LET old == sessions[FindByRefreshToken(sessions, last'.token)]
                new == last'.ret[1]
            IN  /\ new.parentEmail = old.parentEmail
                /\ new.deviceFingerprint = old.deviceFingerprint
                /\ new.accessToken # old.accessToken
                /\ new.refreshToken # old.refreshToken
                /\ new.accessToken.kind = "access"
                /\ new.refreshToken.kind = "refresh"
                /\ ParseDate(new.expiresAt) = now + 7 * 24 * 60 * 60 * 1000
                /\ Cardinality(DOMAIN sessions') = Cardinality(DOMAIN sessions)
                /\ (DOMAIN sessions) \ (DOMAIN sessions') = {old.accessToken}
                /\ (DOMAIN sessions') \ (DOMAIN sessions) = {new.accessToken}

\* C19: refreshSession with the refresh token of a stored row returns a
\* session with the parentEmail and the deviceFingerprint of that row, another
\* access token, another refresh token and expiresAt = now + 7 days; the old
\* row is deleted and one row is created, so the number of rows is unchanged.
C19_RotationKeepsBinding == [][C19_Step]_vars

\* a session issued at the start was rotated after its expiry had been
\* reached, and expires 7 days later
C19_Witness ==
    /\ last.op = "refreshSession" /\ last.ret # None
    /\ now = SESSION_MS + 1
    /\ last.ret[1].createdAt = ToISOString(1)
    /\ ParseDate(last.ret[1].expiresAt) = 2 * SESSION_MS + 1

C20_Step ==
    /\ \A k \in DOMAIN sessions' : sessions'[k].accessToken = k
    /\ (CompleteSignupStep /\ Accepted(last')) =>
          LET session == last'.ret.session IN
          /\ ParseDate(session.expiresAt) = now + 7 * 24 * 60 * 60 * 1000
          /\ GetSessionResult(sessions', session.accessToken, now).ret
                = Some(session)
          /\ GetSessionResult(sessions', session.accessToken, now).sess
                = sessions'

\* C20: after every call of completeSignup, getSession, refreshSession and
\* signOut each row of the sessions namespace is stored under its own
\* accessToken; the session a successful completeSignup returns has
\* expiresAt = now + 7 days and getSession called at once with its access
\* token returns it.
C20_KeyedByAccessToken == [][C20_Step]_vars

\* a second sign-up has issued a session while a rotated session is stored
C20_Witness ==
    /\ last.op = "completeSignup" /\ Accepted(last)
    /\ Has(sessions, last.ret.session.accessToken)
    /\ \E k \in DOMAIN sessions : "updatedAt" \in DOMAIN sessions[k]

\* the error validateEmail reports for the refused emails of the model
RefusalOf(email) ==
    IF email \in {EmailEmpty, EmailBlank} THEN ErrRequired
    ELSE IF email = EmailDisposable THEN ErrDisposable
    ELSE ErrFormat

C18_Step ==
    (RequestStep /\ last'.op = "startSignup" /\ last'.email \in BadEmails) =>
        /\ ~Validated(last'.email).valid
        /\ last'.ret = [success |-> FALSE, error |-> RefusalOf(last'.email)]
        /\ last'.ret = StartSignupResult(<<>>, last'.email, Code1, FALSE, now).ret
        /\ otp_data' = otp_data
        /\ issued' = issued
        /\ parents' = parents /\ sessions' = sessions

\* C18: startSignup with an email validateEmail refuses (empty, blank,
\* malformed, deny-listed domain) returns {success: false, error} with the
\* validation error, the same answer whatever the OTP namespace holds, and
\* leaves the OTP namespace as it was: no code is returned or stored and no
\* record is created or changed.
C18_InvalidEmailTouchesNothing == [][C18_Step]_vars

\* startSignup with a deny-listed domain was refused while a code is stored
\* for another email
C18_Witness ==
    /\ last.op = "startSignup" /\ last.email = EmailDisposable
    /\ last.ret = [success |-> FALSE, error |-> ErrDisposable]
    /\ Has(otp_data, Lowered(EmailA))
    /\ ~Has(otp_data, Lowered(EmailDisposable))

\* the step is a call of a handler of the sessions namespace on the medium
\* whose calls can fail
SessionHandlerStep ==
    now' = now /\ last'.op \in {"completeSignup", "getSession", "refreshSession"}

C16_Step ==
    (SessionHandlerStep /\ last'.op # "getSession") =>
        /\ \A s \in IssuedBy(last') :
              GetSessionResult(sessions', s.accessToken, now).ret = Some(s)
        /\ last'.failedWrite => IssuedBy(last') = {}

\* C16: when a write of the medium fails during completeSignup or
\* refreshSession (parent save, session save, delete of the old session), the
\* call returns no session; every session a call returns is returned by
\* getSession called at once with its access token.
C16_WriteFailureSurfaces == [][C16_Step]_vars

C17_Step ==
    SessionHandlerStep =>
        /\ (last'.op = "getSession" /\ last'.failedRead /\ last'.found)
              => last'.ret # GetSessionResult(<<>>, last'.token, now).ret
        /\ (last'.op = "refreshSession" /\ last'.failedRead /\ last'.found)
              => last'.ret # None
        /\ last'.failedWrite => FALSE \in last'.saved

\* C17: a failure of the medium is told apart from a normal answer: a
\* handler whose read of the sessions namespace fails does not answer as it
\* does for a key that is absent (null), and a save or a delete whose write
\* fails does not return success.
C17_FailureDistinguishable == [][C17_Step]_vars

\* the step is a call of signOut
SignOutStep == now' = now /\ last'.op = "signOut"

C21_Step ==
    SignOutStep =>
        /\ last'.ret = [success |-> TRUE]
        /\ ~Has(sessions', last'.token)
        /\ \A k \in (DOMAIN sessions) \ {last'.token} :
              Has(sessions', k) /\ sessions'[k] = sessions[k]
        /\ DOMAIN sessions' \subseteq DOMAIN sessions
        /\ ~Has(sessions, last'.token) => sessions' = sessions
        /\ SignOutResult(sessions', last'.token)
              = [ret |-> [success |-> TRUE], sess |-> sessions']

\* C21: signOut(accessToken) removes the row keyed by the token when there
\* is one, leaves every other row as it was, returns {success: true} also
\* when no row is keyed by the token, and a second call with the same token
\* returns the same and leaves the namespace as the first call left it.
C21_SignOutIdempotent == [][C21_Step]_vars

\* signOut was called with a token that keys no row and returned success,
\* while a session is stored
C21_Witness ==
    /\ last.op = "signOut" /\ ~last.found /\ last.token # NoToken
    /\ last.ret = [success |-> TRUE]
    /\ sessions # <<>>

\* signOut removed one of two stored sessions
C21_WitnessRemoved ==
    /\ last.op = "signOut" /\ last.found
    /\ Cardinality(DOMAIN sessions) = 1

C22_Step ==
    (RefreshSessionStep /\ ~Matches(sessions, last'.token)) =>
        /\ last'.ret = None
        /\ sessions' = sessions

\* C22: refreshSession with a refresh token no stored row holds, or with an
\* empty token, returns null and leaves the sessions namespace as it was.
C22_UnknownRefreshToken == [][C22_Step]_vars

\* refreshSession with a token no row holds returned null while a session
\* is stored
C22_Witness ==
    /\ last.op = "refreshSession" /\ last.ret = None
    /\ last.token # NoToken
    /\ sessions # <<>>
    /\ \A k \in DOMAIN sessions : sessions[k].refreshToken # last.token

\* the step is a call of getRemainingAttempts
RemainingStep == now' = now /\ last'.op = "getRemainingAttempts"

C23_Step ==
    RemainingStep =>
        LET key == Lowered(last'.email)
            n == InWindow(Attempts(otp_data, key), now)
        IN  /\ last'.ret = (IF 5 - n > 0 THEN 5 - n ELSE 0)
            /\ last'.ret \in 0..5
            /\ ~Has(otp_data, key) => last'.ret = 5
            /\ otp_data' = otp_data

\* C23: getRemainingAttempts(e) returns max(0, 5 - n), n the number of
\* attempt records of e with now - timestamp < 60 minutes: a value in 0..5,
\* 5 for an email without a record, and an attempt exactly 60 minutes old is
\* not counted.
C23_RemainingAttempts == [][C23_Step]_vars

\* five attempts made at the start are exactly 60 minutes old and 5 is
\* returned
C23_Witness ==
    /\ last.op = "getRemainingAttempts" /\ last.ret = 5
    /\ now = ATTEMPT_WINDOW_MS + 1
    /\ Len(Attempts(otp_data, Lowered(last.email))) = 5
    /\ \A i \in 1..5 : Attempts(otp_data, Lowered(last.email))[i].timestamp = 1

\* six attempts lie within the window and 0 is returned
C23_WitnessFloor ==
    /\ last.op = "getRemainingAttempts" /\ last.ret = 0
    /\ InWindow(Attempts(otp_data, Lowered(last.email)), now) = 6

\* the attempts of key met the cap when the last of them was made, and all
\* of them have left the window at t
CapLapsed(store, key, t) ==
    /\ Len(Attempts(store, key)) >= 5
    /\ InWindow(Attempts(store, key), LastAttempt(store, key).timestamp) >= 5
    /\ InWindow(Attempts(store, key), t) = 0

C24_Step ==
    /\ (RequestStep /\ CapLapsed(otp_data, Lowered(last'.email), now)) =>
          /\ Granted(last')
          /\ Live(otp_data', Lowered(last'.email), now)
    /\ (SubmitStep /\ CapLapsed(otp_data, Lowered(last'.email), now)
           /\ Live(otp_data, Lowered(last'.email), now)
           /\ last'.otp = LiveCode(otp_data, Lowered(last'.email))) =>
          Accepted(last')

\* C24: for an email whose attempts met the cap, once every attempt is 60
\* minutes old or older a request succeeds and stores a code, and the
\* submission of the stored, unexpired code returns Valid; no other call is
\* needed in between.
C24_ThrottleLapses == [][C24_Step]_vars

\* five attempts made at the start met the cap; 60 minutes later a code was
\* requested and its submission returned Valid
C24_Witness ==
    /\ last.op = "validateOTP" /\ Accepted(last)
    /\ now = ATTEMPT_WINDOW_MS + 1
    /\ Len(Attempts(otp_data, Lowered(last.email))) = 6
    /\ \A i \in 1..5 : Attempts(otp_data, Lowered(last.email))[i].timestamp = 1
    /\ LastAttempt(otp_data, Lowered(last.email)).timestamp = now

\* s is a prefix of r
IsPrefix(s, r) == Len(s) <= Len(r) /\ SubSeq(r, 1, Len(s)) = s

C25_Step ==
    \A key \in Keys : IsPrefix(Attempts(otp_data, key), Attempts(otp_data', key))

\* C25: after every call of generateOTPForEmail, validateOTP and
\* getRemainingAttempts the attempts stored before the call are a prefix of
\* the attempts stored after it, attempts older than the window included.
C25_AttemptsAppendOnly == [][C25_Step]_vars

\* an attempt was appended while an attempt older than the window is stored
C25_Witness ==
    /\ last.op = "validateOTP"
    /\ now = ATTEMPT_WINDOW_MS + 1
    /\ Len(Attempts(otp_data, Lowered(last.email))) >= 2
    /\ Attempts(otp_data, Lowered(last.email))[1].timestamp = 1
    /\ LastAttempt(otp_data, Lowered(last.email)).timestamp = now

C26_Step ==
    (RequestStep /\ last'.op = "startSignup") =>
        IF ~last'.ret.success THEN DOMAIN last'.ret = {"success", "error"}
        ELSE IF last'.isDev
        THEN last'.ret = [success |-> TRUE, expiresAt |-> now + 600000,
                          otp |-> LiveCode(otp_data', Lowered(last'.email))]
        ELSE last'.ret = [success |-> TRUE, expiresAt |-> now + 600000]

\* C26: the result of startSignup holds the code, the one just stored, only
\* when isDev is true; when isDev is false a successful result is
\* {success, expiresAt} and holds no code, and a failure never holds one.
C26_CodeOnlyInDev == [][C26_Step]_vars

\* startSignup succeeded with isDev false and returned no code while a code
\* is stored
C26_Witness ==
    /\ last.op = "startSignup" /\ ~last.isDev /\ last.ret.success
    /\ DOMAIN last.ret = {"success", "expiresAt"}
    /\ LiveCode(otp_data, Lowered(last.email)) \in Codes

\* no success is recorded for the code stored for key since it was generated
NoSuccessForLiveCode(store, key) ==
    LiveCode(store, key) # NoCode =>
        \A i \in 1..Len(Attempts(store, key)) :
            ~ /\ Attempts(store, key)[i].success
              /\ Attempts(store, key)[i].otp = LiveCode(store, key)
              /\ Attempts(store, key)[i].timestamp > GeneratedAt(store, key)

C27_Step ==
    /\ \A key \in DOMAIN otp_data' :
          /\ (otp_data'[key].currentOTP = NoCode)
                <=> (otp_data'[key].otpGeneratedAt = NoTime)
          /\ NoSuccessForLiveCode(otp_data', key)
    /\ (SubmitStep /\ Accepted(last')) =>
          LET key == Lowered(last'.email) IN
          /\ AppendedOne(key)
          /\ LastAttempt(otp_data', key).success
          /\ LastAttempt(otp_data', key).otp = LiveCode(otp_data, key)
          /\ LiveCode(otp_data', key) = NoCode
          /\ GeneratedAt(otp_data', key) = NoTime

\* C27: a submission answered Valid leaves, in the one record it saves, the
\* success attempt appended and both currentOTP and otpGeneratedAt null; in
\* every stored record currentOTP is null exactly when otpGeneratedAt is
\* null, and no stored record holds a success for a code that is still
\* stored.
C27_ClearedWithAttempt == [][C27_Step]_vars

\* a code was accepted after a wrong submission: both attempts are recorded
\* and the code and its generation time are cleared
C27_Witness ==
    /\ IsSubmit(last) /\ Accepted(last)
    /\ Len(Attempts(otp_data, Lowered(last.email))) = 2
    /\ LiveCode(otp_data, Lowered(last.email)) = NoCode
    /\ GeneratedAt(otp_data, Lowered(last.email)) = NoTime

\* five or more attempts of key lie within the window before the step
AtCap(key) == InWindow(Attempts(otp_data, key), now) >= 5

C28_StepAsClaimed ==
    /\ (RequestStep /\ AtCap(Lowered(last'.email))) => ThrottledRequest(last')
    /\ (SubmitStep /\ AtCap(Lowered(last'.email))) => Refused(last', ErrTooMany)

\* C28 as stated: an email with five attempts of any outcome within the
\* trailing 60 minutes, five successes for example, is answered with the
\* throttled error on a request and with 'Too many attempts' on a submission.
C28_SuccessesThrottleBoth == [][C28_StepAsClaimed]_vars

C28_Step ==
    /\ (RequestStep /\ AtCap(Lowered(last'.email))) =>
          ThrottledRequest(last') /\ otp_data' = otp_data
    /\ (SubmitStep /\ AtCap(Lowered(last'.email))
           /\ Live(otp_data, Lowered(last'.email), now)) =>
          Refused(last', ErrTooMany) /\ otp_data' = otp_data
    /\ (SubmitStep /\ AtCap(Lowered(last'.email))
           /\ LiveCode(otp_data, Lowered(last'.email)) = NoCode) =>
          Refused(last', ErrNoOTP) /\ otp_data' = otp_data

\* C28, amended: successes count towards the cap like failures.  An email
\* with five attempts of any outcome within the trailing 60 minutes is
\* answered with the throttled error on every request; a submission is
\* answered 'Too many attempts' when a code is stored and unexpired, and 'No
\* OTP found' when none is stored, which is the case after five successes.
C28_SuccessesCount == [][C28_Step]_vars

\* a request was refused with five successes in the window
C28_Witness ==
    /\ ThrottledRequest(last)
    /\ Len(Attempts(otp_data, Lowered(last.email))) = 5
    /\ \A i \in 1..5 : Attempts(otp_data, Lowered(last.email))[i].success

\* the stored code was refused with four successes and one failure in the
\* window
C28_WitnessSubmit ==
    /\ Refused(last, ErrTooMany) /\ last.otp = LiveCode(otp_data, Lowered(last.email))
    /\ Len(Attempts(otp_data, Lowered(last.email))) = 5
    /\ Cardinality({i \in 1..5 : Attempts(otp_data, Lowered(last.email))[i].success}) = 4

C29_Step ==
    (RefreshSessionStep /\ Matches(sessions, last'.token)
       /\ now > ParseDate(sessions[FindByRefreshToken(sessions, last'.token)].expiresAt)) =>
        /\ last'.ret = None
        /\ DOMAIN sessions' \subseteq DOMAIN sessions

\* C29: refreshSession called with the refresh token of a stored session
\* whose expiry has passed (now > expiresAt) returns null and adds no row to
\* the sessions namespace.
C29_ExpiredNotRevived == [][C29_Step]_vars

C30_Step ==
    /\ (RefreshSessionStep /\ last'.ret # None) =>
          LET new == last'.ret[1] IN
          /\ ~Matches(sessions', last'.token)
          /\ \A r \in Rand :
                RefreshSessionResult(sessions', last'.token, now, r, r)
                  = [ret |-> None, sess |-> sessions']
          /\ new.refreshToken # last'.token
          /\ Matches(sessions', new.refreshToken)
          /\ FindByRefreshToken(sessions', new.refreshToken) = new.accessToken
    /\ (RefreshSessionStep /\ last.op = "refreshSession" /\ last.ret # None
           /\ last'.token = last.token) =>
          last'.ret = None /\ sessions' = sessions

\* C30: after refreshSession(r) has returned a session no stored row holds
\* r, so that refreshSession(r) called next returns null and changes nothing;
\* the row of the returned session is found by the refresh token of that
\* session, which differs from r.
C30_RefreshTokenSingleUse == [][C30_Step]_vars

\* the session issued at the start was rotated once, and its first refresh
\* token, presented again, was answered null
C30_Witness ==
    /\ last.op = "refreshSession" /\ last.ret = None
    /\ last.token = [kind |-> "refresh", at |-> 1, rnd |-> "r1"]
    /\ calls = 3
    /\ \E k \in DOMAIN sessions :
          /\ "updatedAt" \in DOMAIN sessions[k]
          /\ sessions[k].createdAt = ToISOString(1)
          /\ sessions[k].refreshToken = [kind |-> "refresh", at |-> 1, rnd |-> "r2"]

-----------------------------------------------------------------------------
(* C34: a save or a delete of one key and the other keys *)

\* the keys of the sessions namespace the call of the step saves or deletes
C34_Written ==
    IF last'.op = "completeSignup"
    THEN {s.accessToken : s \in IssuedBy(last')}
    ELSE IF last'.op = "getSession" THEN {last'.token}
    ELSE {s.accessToken : s \in IssuedBy(last')}
         \cup {sessions[k].accessToken :
                 k \in {j \in DOMAIN sessions :
                          sessions[j].refreshToken = last'.token}}

C34_Step ==
    SessionHandlerStep =>
        \A k \in DOMAIN sessions \ C34_Written :
            Has(sessions', k) /\ sessions'[k] = sessions[k]

\* C34: a save or a delete of one key of a namespace leaves every other key
\* of the namespace with the value it had, also when the read of the namespace
\* fails during the operation: every call of completeSignup, getSession and
\* refreshSession on the medium whose calls can fail leaves each row of the
\* sessions namespace that it neither saves nor deletes as it was.
C34_OtherKeysKept == [][C34_Step]_vars

-----------------------------------------------------------------------------
(* C38: the children of a parent *)

ChildStep ==
    now' = now /\ last'.op \in {"createChild", "updateChild", "deleteChild"}

C38_Step ==
    ChildStep =>
        /\ \A k \in DOMAIN children' :
              Len(children'[k]) <= MAX_CHILDREN_PER_PARENT
        /\ (/\ last'.op = "createChild"
            /\ Len(GetChildren(children, last'.email))
                 >= MAX_CHILDREN_PER_PARENT)
              => ~last'.ret.success /\ children' = children
        /\ last'.op = "updateChild" =>
              \A k \in Keys :
                  Len(GetChildren(children', k)) = Len(GetChildren(children, k))

\* C38: after any sequence of createChild, updateChild and deleteChild calls,
\* one after the other, every parent has at most 5 stored children; a
\* createChild for a parent with 5 children returns success false and leaves
\* the children namespace as it was; an updateChild leaves the number of
\* children of every parent as it was.
C38_AtMostFiveChildren == [][C38_Step]_vars

\* a createChild with valid data has been refused for the parent with five
\* children, one of them renamed by an updateChild
C38_Witness ==
    /\ last.op = "createChild" /\ last.email = EmailAUpper
    /\ last.ret = [success |-> FALSE,
                   error |-> "Maximum of 5 children allowed per parent"]
    /\ Len(GetChildren(children, EmailA)) = MAX_CHILDREN_PER_PARENT
    /\ \E i \in 1..MAX_CHILDREN_PER_PARENT :
          children[EmailA][i].nickname = <<"B", "o">>

-----------------------------------------------------------------------------
(* C35: the access token after the signOut of the AuthProvider *)

ProviderSignOutStep == now' = now /\ last'.op = "AuthProvider.signOut"

C35_Step ==
    ProviderSignOutStep =>
        /\ ~Has(sessions', last'.token)
        /\ GetSessionResult(sessions', last'.token, now).ret = None

\* C35: after the signOut of the AuthProvider completes, the access token of
\* the session no longer authenticates: the sessions namespace holds no row
\* for it and getSession on it returns null.
C35_SignedOutTokenDead == [][C35_Step]_vars

-----------------------------------------------------------------------------
(* C36: loadSession *)

LoadSessionStep == now' = now /\ last'.op = "loadSession"

\* the stored token is the key of a stored session that has not expired
Resolves ==
    /\ current_session_token # NoToken
    /\ Has(sessions, current_session_token)
    /\ now <= ParseDate(sessions[current_session_token].expiresAt)

C36_Step ==
    LoadSessionStep =>
        /\ ~provider'.loading
        /\ provider'.session # None =>
              /\ Resolves
              /\ provider'.session = Some(sessions[current_session_token])
        /\ (current_session_token # NoToken /\ ~Resolves) =>
              /\ current_session_token' = NoToken
              /\ provider'.session = None

\* C36: loadSession always ends with loading false; it sets the session of
\* the provider (isAuthenticated) only if the stored token is the key of a
\* stored session that has not expired, and to that session; when the stored
\* token resolves to no session, the key current_session_token is removed and
\* the user stays unauthenticated.
C36_LoadSession == [][C36_Step]_vars

\* the application has been launched with the token of a session that has
\* expired: the key is removed, the row is gone, nobody is signed in
C36_Witness ==
    /\ last.op = "loadSession"
    /\ last.token = [kind |-> "access", at |-> 1, rnd |-> "r1"]
    /\ now = SESSION_MS + 2
    /\ current_session_token = NoToken
    /\ provider.session = None /\ ~provider.loading
    /\ ~Has(sessions, last.token)

-----------------------------------------------------------------------------
(* C37: skipping the creation of a child *)

SkipChildStep == now' = now /\ last'.op = "handleSkipChildProfile"

C37_Step ==
    (/\ SkipChildStep
     /\ provider.session # None
     /\ Len(provider.children) = 0) =>
        Screen(provider', skippedParentProfile') = "HomeScreen"

\* C37: a signed-in user with no children who skips the creation of a child
\* profile is taken to the home screen: after the skip AppContent renders
\* HomeScreen, not CreateChildProfile.
C37_SkipLeadsHome == [][C37_Step]_vars

-----------------------------------------------------------------------------
(* C31, C32, C33: calls that overlap *)

\* the calls of completeSignup for key that have returned success
Successes(key) ==
    {i \in Returned("completeSignup") :
        Lowered(tasks[i].arg) = key /\ tasks[i].ret.success}

\* no call was made while another was in flight
InTurn == \A i \in DOMAIN tasks : tasks[i].alone

\* C31 as stated: however the awaits of two completeSignup calls for one
\* email with the same correct code interleave, at most one returns success:
\* the calls that succeed for a key are no more than the codes issued for it.
C31_OneSessionPerCode ==
    Cardinality(Successes(EmailA)) <= Len(issued[EmailA])

\* C31, amended: two completeSignup calls for one email with the same correct
\* code, the second made after the first has returned, do not both return
\* success unless a code was issued for each.
C31_OneSessionPerCodeInTurn ==
    InTurn => Cardinality(Successes(EmailA)) <= Len(issued[EmailA])

\* one code was issued; the call made first returned success, the call made
\* after its return was answered that no code is stored
C31_Witness ==
    /\ Len(issued[EmailA]) = 1
    /\ Returned("completeSignup") = {1, 2} /\ InTurn
    /\ tasks[1].arg = EmailAUpper /\ tasks[2].arg = EmailAUpper
    /\ tasks[1].ret.success
    /\ tasks[2].ret = [success |-> FALSE, error |-> ErrNoOTP]

\* two calls of completeSignup for different emails have returned success
TwoSignups ==
    /\ Returned("completeSignup") = {1, 2}
    /\ Lowered(tasks[1].arg) # Lowered(tasks[2].arg)
    /\ tasks[1].ret.success /\ tasks[2].ret.success

\* C32: operations on different keys of one namespace that overlap do not
\* interfere: when two completeSignup calls for different emails have
\* returned success, the sessions namespace holds both sessions, the parents
\* namespace both parents, and the record of each email in the OTP namespace
\* holds the successful attempt.
C32_DifferentKeysKept ==
    TwoSignups =>
        \A i \in {1, 2} :
            /\ Has(sessions, tasks[i].ret.session.accessToken)
            /\ Has(parents, Lowered(tasks[i].arg))
            /\ Has(otp_data, Lowered(tasks[i].arg))
            /\ \E n \in DOMAIN otp_data[Lowered(tasks[i].arg)].attempts :
                  otp_data[Lowered(tasks[i].arg)].attempts[n].success

\* two calls of refreshSession with one refresh token have returned
TwoRefreshes ==
    /\ Returned("refreshSession") = {1, 2}
    /\ tasks[1].arg = tasks[2].arg

\* the sessions the calls returned that are stored
LiveReturned ==
    {i \in {1, 2} : /\ tasks[i].ret # None
                    /\ Has(sessions, tasks[i].ret[1].accessToken)}

\* C33 as stated: however the awaits of two refreshSession calls with one
\* refresh token interleave, at most one returns a session that is stored
\* afterwards, and no call returns a session whose row is missing.
C33_OneRotationPerToken ==
    TwoRefreshes =>
        /\ Cardinality(LiveReturned) <= 1
        /\ \A i \in {1, 2} : tasks[i].ret # None => i \in LiveReturned

\* C33, amended: of two refreshSession calls with one refresh token, the
\* second made after the first has returned, at most one returns a session,
\* and the session returned is stored.
C33_OneRotationPerTokenInTurn ==
    (TwoRefreshes /\ InTurn) =>
        /\ Cardinality(LiveReturned) <= 1
        /\ \A i \in {1, 2} : tasks[i].ret # None => i \in LiveReturned

\* the call made first rotated the session, the call made after its return
\* with the same refresh token was answered null
C33_Witness ==
    /\ TwoRefreshes /\ InTurn
    /\ tasks[1].ret # None /\ tasks[2].ret = None
    /\ LiveReturned = {1}

=============================================================================
